---------------------------- MODULE Spec2Model ----------------------------
(***************************************************************************)
(* Clustered light culling (Forward+ and Clustered Deferred) of the WebGPU *)
(* renderer: the clustering compute shader, the two shading fragment       *)
(* shaders, and the host code that uploads uniforms and submits the passes *)
(* of a frame.                                                             *)
(*                                                                         *)
(* Numbers.  Lengths are whole world units.  Angles are tenths of a        *)
(* degree: atan2 and asin are computed from a sine table and truncated     *)
(* toward zero.  Every comparison of the shaders against a cluster bound   *)
(* is made exactly, in rational arithmetic, by cross-multiplying with the  *)
(* (positive) denominators the shader divides by.                          *)
(***************************************************************************)
EXTENDS Integers, Sequences, FiniteSets, TLC

(***************************************************************************)
(* Bounds of the model.  The host constants they stand for are far larger  *)
(* (Camera.clustersX = 10, clustersY = 10, clustersZ = 32,                 *)
(* maxLightsPerCluster = 512, nearPlane = 0.1, farPlane = 1000,            *)
(* Lights.maxNumLights = 5000); the shaders read all of them from buffers. *)
(***************************************************************************)
ClustersX == 2
ClustersY == 3
ClustersZ == 2
MaxLightsPerCluster == 2
MaxNumLights == 3
NearPlane == 1
FarPlane == 13
ScreenW == 4
ScreenH == 3
MaxFrames == 2
MaxEvents == 1

\* shaders.ts: constants.lightRadius, injected into common.wgsl
LightRadius == 2
\* clustering.cs.wgsl: fovY = 45.0 * 3.1415926 / 180.0; FovY is fovY in
\* tenths of a degree
FovYDegrees == 45
FovY == 10 * FovYDegrees

\* A clamp that bounds its argument from below only
ClampFromBelow(e, low, high) == IF e < low THEN low ELSE e

Min(a, b) == IF a <= b THEN a ELSE b
Max(a, b) == IF a >= b THEN a ELSE b
Abs(a) == IF a >= 0 THEN a ELSE -a
\* WGSL clamp(e, low, high) = min(max(e, low), high)
Clamp(e, low, high) == Min(Max(e, low), high)

(***************************************************************************)
(* Trigonometry in tenths of a degree.                                     *)
(* SinTab[d + 1] = round(10000 * sin(d degrees)); between whole degrees    *)
(* the sine is interpolated linearly.                                      *)
(***************************************************************************)
SinTab ==
  << 0, 175, 349, 523, 698, 872, 1045, 1219, 1392, 1564,
     1736, 1908, 2079, 2250, 2419, 2588, 2756, 2924, 3090, 3256,
     3420, 3584, 3746, 3907, 4067, 4226, 4384, 4540, 4695, 4848,
     5000, 5150, 5299, 5446, 5592, 5736, 5878, 6018, 6157, 6293,
     6428, 6561, 6691, 6820, 6947, 7071, 7193, 7314, 7431, 7547,
     7660, 7771, 7880, 7986, 8090, 8192, 8290, 8387, 8480, 8572,
     8660, 8746, 8829, 8910, 8988, 9063, 9135, 9205, 9272, 9336,
     9397, 9455, 9511, 9563, 9613, 9659, 9703, 9744, 9781, 9816,
     9848, 9877, 9903, 9925, 9945, 9962, 9976, 9986, 9994, 9998,
     10000 >>
\* 10000 * sin(a / 10 degrees), 0 <= a <= 900
Sin(a) ==
  LET d == a \div 10
      j == a % 10
  IN IF j = 0 THEN SinTab[d + 1]
     ELSE SinTab[d + 1] + ((SinTab[d + 2] - SinTab[d + 1]) * j) \div 10
Cos(a) == Sin(900 - a)

\* sin(a) <= y / x ("asin") or tan(a) <= y / x ("atan"), for x >= 0, y >= 0
AtMost(fn, a, y, x) ==
  IF fn = "asin" THEN Sin(a) * x <= Sin(900) * y ELSE Sin(a) * x <= Cos(a) * y

\* The largest a in 0..900 with AtMost(fn, a, y, x), which is true at 0 and
\* decreasing in a: first the tens of degrees, then the degrees, then the
\* tenths.
LargestAngle(fn, y, x) ==
  LET h == Cardinality({k \in 1..9 : AtMost(fn, 100 * k, y, x)})
      d == Cardinality({k \in 1..9 : AtMost(fn, 100 * h + 10 * k, y, x)})
      j == Cardinality({k \in 1..9 : AtMost(fn, 100 * h + 10 * d + k, y, x)})
  IN IF h = 9 THEN 900 ELSE 100 * h + 10 * d + j

\* asin(num/den) for 0 <= num <= den, den > 0
Asin(num, den) == LargestAngle("asin", num, den)

\* atan(y/x) for x >= 0, y >= 0, not both 0
AtanQ(y, x) == LargestAngle("atan", y, x)

\* WGSL atan2(y, x), in (-1800, 1800]
Atan2(y, x) ==
  IF x = 0 /\ y = 0 THEN 0
  ELSE LET q == AtanQ(Abs(y), Abs(x))
           m == IF x >= 0 THEN q ELSE 1800 - q
       IN IF y >= 0 THEN m ELSE -m

(***************************************************************************)
(* Camera and view transform.  A camera is [pos, yaw]: yaw counts quarter  *)
(* turns (rotateCamera with dx a multiple of 90 degrees, pitch 0), so that *)
(* the basis lookAt builds is made of whole numbers.                       *)
(***************************************************************************)
Vec3 == Int \X Int \X Int
VSub(a, b) == <<a[1] - b[1], a[2] - b[2], a[3] - b[3]>>
VAdd(a, b) == <<a[1] + b[1], a[2] + b[2], a[3] + b[3]>>
Dot(a, b) == a[1] * b[1] + a[2] * b[2] + a[3] * b[3]

\* Camera.rotateCamera: front = (cos yaw cos pitch, sin pitch, sin yaw cos pitch)
CameraFront(yaw) ==
  CASE yaw = 0 -> <<1, 0, 0>>
    [] yaw = 1 -> <<0, 0, 1>>
    [] yaw = 2 -> <<-1, 0, 0>>
    [] OTHER   -> <<0, 0, -1>>
\* Camera.rotateCamera: right = normalize(cross(front, [0, 1, 0]))
CameraRight(yaw) ==
  LET f == CameraFront(yaw) IN <<-f[3], 0, f[1]>>

\* mat4.lookAt(cameraPos, cameraPos + cameraFront, [0, 1, 0]) applied to a
\* world point: x along right, y along up, z along -front
ViewTransform(viewMat, p) ==
  LET d == VSub(p, viewMat.pos)
  IN <<Dot(CameraRight(viewMat.yaw), d), d[2], -Dot(CameraFront(viewMat.yaw), d)>>

(***************************************************************************)
(* clustering.cs.wgsl: one invocation per cluster.                         *)
(* clu is the ClusteringUniforms block, lightData the Lights buffer         *)
(* [numLights, pos, color].                                                *)
(***************************************************************************)
totalClusters(clu) == clu.clustersX * clu.clustersY * clu.clustersZ

\* the flat index decomposed by div/mod
clusterZOf(clu, clusterIndex) == clusterIndex \div (clu.clustersX * clu.clustersY)
clusterXYOf(clu, clusterIndex) == clusterIndex % (clu.clustersX * clu.clustersY)
clusterYOf(clu, clusterIndex) == clusterXYOf(clu, clusterIndex) \div clu.clustersX
clusterXOf(clu, clusterIndex) == clusterXYOf(clu, clusterIndex) % clu.clustersX

\* Angular bounds.  aspect = screenWidth / screenHeight, fovX = fovY * aspect.
\* The horizontal bounds are given times AngleDenX, the vertical ones times
\* AngleDenY.
AngleDenX(clu) == 2 * clu.screenHeight * clu.clustersX
AngleDenY(clu) == 2 * clu.clustersY
\* angleLeft = -fovX * 0.5 + fovX * f32(clusterX) / f32(clustersX)
angleLeft(clu, clusterX) == FovY * clu.screenWidth * (2 * clusterX - clu.clustersX)
\* angleRight = -fovX * 0.5 + fovX * f32(clusterX + 1) / f32(clustersX)
angleRight(clu, clusterX) == FovY * clu.screenWidth * (2 * (clusterX + 1) - clu.clustersX)
\* angleDown = -fovY * 0.5 + fovY * f32(clusterY + 1) / f32(clustersY)
angleDown(clu, clusterY) == FovY * (2 * (clusterY + 1) - clu.clustersY)
\* angleUp = -fovY * 0.5 + fovY * f32(clusterY) / f32(clustersY)
angleUp(clu, clusterY) == FovY * (2 * clusterY - clu.clustersY)

\* Depth bounds, given times clustersZ:
\* zSliceDepth = (far - near) / clustersZ, zNear = near + zSliceDepth * clusterZ
zNear(clu, clusterZ) == clu.near * clu.clustersZ + (clu.far - clu.near) * clusterZ
zFar(clu, clusterZ) == clu.near * clu.clustersZ + (clu.far - clu.near) * (clusterZ + 1)

\* What the loop body computes of one light, whatever the cluster:
\* lz, horizAngle, vertAngle and the half angle
\* asin(min(1.0, lightRadius / max(lz, 0.001)))
LightAngles(clu, lightPos) ==
  LET lightPosView == ViewTransform(clu.viewMat, lightPos)
      lz == -lightPosView[3]
      half == IF lz <= LightRadius THEN 900 ELSE Asin(LightRadius, lz)
  IN [lz |-> lz,
      horizAngle |-> Atan2(lightPosView[1], lz),
      vertAngle |-> Atan2(lightPosView[2], lz),
      halfAngle |-> half]

\* A depth pre-filter that lets every light through
DepthKeepAll(clu, la, clusterZ) == FALSE

\* A depth pre-filter without the margin of the light radius
DepthRejectTight(clu, la, clusterZ) ==
  \/ la.lz * clu.clustersZ < zNear(clu, clusterZ)
  \/ la.lz * clu.clustersZ > zFar(clu, clusterZ)

\* the depth pre-filter: TRUE when the loop continues without appending
DepthReject(clu, la, clusterZ) ==
  \/ la.lz * clu.clustersZ < zNear(clu, clusterZ) - LightRadius * clu.clustersZ
  \/ la.lz * clu.clustersZ > zFar(clu, clusterZ) + LightRadius * clu.clustersZ

\* if (lightAngleRight < angleLeft || lightAngleLeft > angleRight) continue
HorizReject(clu, la, clusterX) ==
  \/ (la.horizAngle + la.halfAngle) * AngleDenX(clu) < angleLeft(clu, clusterX)
  \/ (la.horizAngle - la.halfAngle) * AngleDenX(clu) > angleRight(clu, clusterX)

\* if (lightAngleUp < angleDown || lightAngleDown > angleUp) continue
VertReject(clu, la, clusterY) ==
  \/ (la.vertAngle + la.halfAngle) * AngleDenY(clu) < angleDown(clu, clusterY)
  \/ (la.vertAngle - la.halfAngle) * AngleDenY(clu) > angleUp(clu, clusterY)

\* the light reaches the append
LightPasses(clu, la, clusterIndex) ==
  /\ ~DepthReject(clu, la, clusterZOf(clu, clusterIndex))
  /\ ~HorizReject(clu, la, clusterXOf(clu, clusterIndex))
  /\ ~VertReject(clu, la, clusterYOf(clu, clusterIndex))

\* A read of a runtime-sized storage array: an index outside the buffer reads 0
LoadAt(data, k) == IF k \in DOMAIN data THEN data[k] ELSE 0

\* A count that is not reset: the invocation would start from what the
\* buffer holds
CarriedCount(counts, clusterIndex) == counts[clusterIndex]

\* var count: u32 = 0
InitialCount(counts, clusterIndex) == 0

\* An invocation is followed through st = [count, stores]: its local count and
\* the stores <<k, v>> it has issued to clusterIndices, in program order.

\* An append without the capacity test
AppendUncapped(clu, st, clusterIndex, lightIndex) ==
  [count |-> st.count + 1,
   stores |-> Append(st.stores,
                     <<clusterIndex * clu.maxLightsPerCluster + st.count, lightIndex>>)]

\* An append that stores the index of the next light
AppendNext(clu, st, clusterIndex, lightIndex) ==
  IF st.count < clu.maxLightsPerCluster
  THEN [count |-> st.count + 1,
        stores |-> Append(st.stores,
                          <<clusterIndex * clu.maxLightsPerCluster + st.count,
                            lightIndex + 1>>)]
  ELSE st

\* An append that, once the segment is full, replaces its last entry
AppendOverwriting(clu, st, clusterIndex, lightIndex) ==
  IF st.count < clu.maxLightsPerCluster
  THEN [count |-> st.count + 1,
        stores |-> Append(st.stores,
                          <<clusterIndex * clu.maxLightsPerCluster + st.count,
                            lightIndex>>)]
  ELSE [st EXCEPT !.stores =
          Append(@, <<clusterIndex * clu.maxLightsPerCluster + st.count - 1,
                      lightIndex>>)]

\* An append that leaves the segment base out of the address
AppendUnbased(clu, st, clusterIndex, lightIndex) ==
  IF st.count < clu.maxLightsPerCluster
  THEN [count |-> st.count + 1,
        stores |-> Append(st.stores, <<st.count, lightIndex>>)]
  ELSE st

\* An append that puts the new light at the head of the list and moves the
\* entries behind it
AppendAtHead(clu, st, clusterIndex, lightIndex) ==
  IF st.count < clu.maxLightsPerCluster
  THEN LET base == clusterIndex * clu.maxLightsPerCluster
           held == [j \in 1..st.count |-> st.stores[Len(st.stores) - st.count + j][2]]
       IN [count |-> st.count + 1,
           stores |-> st.stores \o << <<base, lightIndex>> >>
                        \o [j \in 1..st.count |-> <<base + j, held[j]>>]]
  ELSE st

\* if (count < maxLightsPerCluster) { clusterIndices[...] = lightIndex; count++ }
AppendLight(clu, st, clusterIndex, lightIndex) ==
  IF st.count < clu.maxLightsPerCluster
  THEN [count |-> st.count + 1,
        stores |-> Append(st.stores,
                          <<clusterIndex * clu.maxLightsPerCluster + st.count,
                            lightIndex>>)]
  ELSE st

\* for (lightIndex = 0; lightIndex < numLights; lightIndex++)
RECURSIVE LightLoop(_, _, _, _, _, _)
LightLoop(clu, angles, numLights, clusterIndex, lightIndex, st) ==
  IF lightIndex >= numLights THEN st
  ELSE LightLoop(clu, angles, numLights, clusterIndex, lightIndex + 1,
                 IF LightPasses(clu, angles[lightIndex + 1], clusterIndex)
                 THEN AppendLight(clu, st, clusterIndex, lightIndex)
                 ELSE st)

\* An invocation that stores its count before the light loop has run
CountStoredFirst(clu, angles, numLights, tab, clusterIndex) ==
  IF clusterIndex >= totalClusters(clu) THEN [indices |-> <<>>, counts |-> <<>>]
  ELSE LET first == [count |-> InitialCount(tab.counts, clusterIndex), stores |-> <<>>]
           st == LightLoop(clu, angles, numLights, clusterIndex, 0, first)
       IN [indices |-> st.stores, counts |-> << <<clusterIndex, first.count>> >>]

\* main(global_id) on the buffers tab = [counts, indices]: the stores the
\* invocation issues to clusterIndices and, last, to clusterCounts
ClusterInvocation(clu, angles, numLights, tab, clusterIndex) ==
  IF clusterIndex >= totalClusters(clu) THEN [indices |-> <<>>, counts |-> <<>>]
  ELSE LET st == LightLoop(clu, angles, numLights, clusterIndex, 0,
                           [count |-> InitialCount(tab.counts, clusterIndex),
                            stores |-> <<>>])
       IN [indices |-> st.stores, counts |-> << <<clusterIndex, st.count>> >>]

\* clustering.cs.wgsl: @workgroup_size(64)
WorkgroupSize == 64
\* Lights.doLightClustering: numWorkgroups = Math.ceil(numClusters / 64), with
\* numClusters the host's Camera.clustersX * clustersY * clustersZ
NumClusters == ClustersX * ClustersY * ClustersZ
\* A dispatch size that rounds down
WorkgroupsRoundedDown(numClusters) == numClusters \div WorkgroupSize
\* Math.ceil(numClusters / workgroupSize)
WorkgroupsFor(numClusters) == (numClusters + WorkgroupSize - 1) \div WorkgroupSize
NumWorkgroups == WorkgroupsFor(NumClusters)

\* the angles of the active lights of the buffer, light i at position i + 1
RECURSIVE AnglesOf(_, _, _)
AnglesOf(clu, lightData, i) ==
  IF i >= MaxNumLights \/ i >= lightData.numLights THEN <<>>
  ELSE <<LightAngles(clu, lightData.pos[i])>> \o AnglesOf(clu, lightData, i + 1)

\* the invocations id, id + 1, ... of the dispatch, each run on the buffers as
\* the pass found them: invocation id is element id + 1
RECURSIVE Invocations(_, _, _, _, _)
Invocations(clu, angles, numLights, tab, id) ==
  IF id >= NumWorkgroups * WorkgroupSize THEN <<>>
  ELSE <<ClusterInvocation(clu, angles, numLights, tab, id)>>
       \o Invocations(clu, angles, numLights, tab, id + 1)

PassInvocations(clu, lightData, tab) ==
  Invocations(clu, AnglesOf(clu, lightData, 0), lightData.numLights, tab, 0)

\* The device may run the invocations of a dispatch in any order; two orders
\* are followed: by ascending and by descending global_id
Schedules == {"ascending", "descending"}

Greatest(S) == CHOOSE x \in S : \A y \in S : y <= x

\* the stores <<k, v>> the invocations invs issue to a buffer, in the order in
\* which they land when the invocations run one after the other by the
\* schedule; n invocations have been taken
RECURSIVE StoreLog(_, _, _, _)
StoreLog(invs, buffer, order, n) ==
  IF n >= Len(invs) THEN <<>>
  ELSE invs[IF order = "ascending" THEN n + 1 ELSE Len(invs) - n][buffer]
       \o StoreLog(invs, buffer, order, n + 1)

\* the entries a log stores to
StoredEntries(log) == {log[j][1] : j \in 1..Len(log)}

\* A storage buffer after the stores of a log have landed: an entry holds the
\* last store made to it, an entry nobody stores to is unchanged, a store
\* outside the buffer is discarded
Applied(data, log) ==
  [k \in DOMAIN data |->
     LET hits == {j \in 1..Len(log) : log[j][1] = k}
     IN IF hits = {} THEN data[k] ELSE log[Greatest(hits)][2]]

\* the two buffers after the stores of the invocations invs have landed
AfterInvocations(tab, invs, order) ==
  [counts |-> Applied(tab.counts, StoreLog(invs, "counts", order, 0)),
   indices |-> Applied(tab.indices, StoreLog(invs, "indices", order, 0))]

\* The clustering compute pass under a schedule
ClusterPass(clu, lightData, tab, order) ==
  AfterInvocations(tab, PassInvocations(clu, lightData, tab), order)


(***************************************************************************)
(* Shading.  A fragment is [px, py, depth, worldPos, worldNormal, albedo]: *)
(* fragCoord.xy is the centre (px + 0.5, py + 0.5) of pixel (px, py) and   *)
(* fragCoord.z the depth-buffer value, a rational depth = <<num, den>>.    *)
(***************************************************************************)
\* u32(clamp(floor(fragCoord.x / (screenW / f32(clustersX))), 0.0, f32(clustersX) - 1.0))
ClusterXIndex(clu, px) ==
  Clamp(((2 * px + 1) * clu.clustersX) \div (2 * clu.screenWidth), 0, clu.clustersX - 1)
\* u32(clamp(floor(fragCoord.y / (screenH / f32(clustersY))), 0.0, f32(clustersY) - 1.0))
ClusterYIndex(clu, py) ==
  Clamp(((2 * py + 1) * clu.clustersY) \div (2 * clu.screenHeight), 0, clu.clustersY - 1)

\* A slice index that rounds to the nearest slice where the shader takes the floor
ClusterZIndexRounded(clu, vd) ==
  Clamp(((2 * (vd[1] - clu.near * vd[2]) * clu.clustersZ) + vd[2] * (clu.far - clu.near))
          \div (2 * vd[2] * (clu.far - clu.near)),
        0, clu.clustersZ - 1)

\* u32(clamp(floor((viewDepth - near) / (far - near) * f32(clustersZ)), 0.0,
\*           f32(clustersZ) - 1.0)) for the rational viewDepth = vd[1] / vd[2]
ClusterZIndex(clu, vd) ==
  Clamp(((vd[1] - clu.near * vd[2]) * clu.clustersZ) \div (vd[2] * (clu.far - clu.near)),
        0, clu.clustersZ - 1)

\* forward_plus.fs.wgsl: ndcPos.z = fragCoord.z * 2.0 - 1.0,
\* viewPos4 = invProjMat * ndcPos, viewDepth = -(viewPos4.z / viewPos4.w).
\* invProjMat inverts perspective(fovY, aspect, n, f), whose third row is
\* (0, 0, f/(n-f), n*f/(n-f)) and fourth row (0, 0, -1, 0), so for ndc depth
\* z: viewPos4.z = -1, viewPos4.w = (z + f/(n-f)) / (n*f/(n-f)).
ForwardPlusViewDepth(clu, depth) ==
  LET n == clu.invProjMat.near
      f == clu.invProjMat.far
      zN == 2 * depth[1] - depth[2]       \* ndc z = zN / depth[2]
  IN <<n * f * depth[2], zN * (n - f) + f * depth[2]>>

\* clustered_deferred_fullscreen.fs.wgsl:
\* viewPos = (viewMat * vec4(fragPos, 1.0)).xyz, viewDepth = -viewPos.z
DeferredViewDepth(clu, fragPos) == <<-ViewTransform(clu.viewMat, fragPos)[3], 1>>

\* A flat index that strides the rows by the row count instead of the
\* column count
FlatIndexByRows(clu, x, y, z) ==
  x + y * clu.clustersY + z * clu.clustersX * clu.clustersY

\* clusterX + clusterY * clustersX + clusterZ * clustersX * clustersY
FlatIndex(clu, x, y, z) == x + y * clu.clustersX + z * clu.clustersX * clu.clustersY

\* forward_plus.fs.wgsl, lines 40-60
ForwardPlusClusterIndex(clu, frag) ==
  FlatIndex(clu, ClusterXIndex(clu, frag.px), ClusterYIndex(clu, frag.py),
            ClusterZIndex(clu, ForwardPlusViewDepth(clu, frag.depth)))

\* clustered_deferred_fullscreen.fs.wgsl, lines 35-44
DeferredClusterIndex(clu, px, py, fragPos) ==
  FlatIndex(clu, ClusterXIndex(clu, px), ClusterYIndex(clu, py),
            ClusterZIndex(clu, DeferredViewDepth(clu, fragPos)))

\* floor(sqrt(x)) for 0 <= x <= (100 * lightRadius)^2
Isqrt(x) == Cardinality({k \in 1..(100 * LightRadius) : k * k <= x})

\* The body of the light loop of both fragment shaders: the contribution of
\* one light, in thousandths:
\*   if (dist <= lightRadius) lighting += lightColor * max(dot(normal, toLight / dist), 0)
\*                                        * (1 - dist / lightRadius)
\* dist is kept in hundredths.  At dist = 0 the shader divides 0 by 0; the
\* scene keeps surfaces off the light positions.
LightContribution(lightPos, lightColor, fragPos, normal) ==
  LET toLight == VSub(lightPos, fragPos)
      d2 == Dot(toLight, toLight)
      dist == Isqrt(d2 * 10000)
      NdotL == Max(Dot(normal, toLight), 0)
  IN IF d2 > LightRadius * LightRadius \/ d2 = 0 THEN 0
     ELSE (lightColor * NdotL * 100 * (100 * LightRadius - dist) * 1000)
            \div (dist * 100 * LightRadius)

\* for (i = 0; i < numLightsInCluster; i++) { lightIndex = clusterIndices[...]; ... }
RECURSIVE ShadeLoop(_, _, _, _, _, _, _, _)
ShadeLoop(clu, lightData, tab, clusterIndex, numLightsInCluster, i, fragPos, normal) ==
  IF i >= numLightsInCluster THEN 0
  ELSE LET lightIndex == LoadAt(tab.indices, clusterIndex * clu.maxLightsPerCluster + i)
           here == IF lightIndex \in DOMAIN lightData.pos
                   THEN LightContribution(lightData.pos[lightIndex],
                                          lightData.color[lightIndex], fragPos, normal)
                   ELSE 0
       IN here + ShadeLoop(clu, lightData, tab, clusterIndex, numLightsInCluster,
                           i + 1, fragPos, normal)

\* the lighting a fragment shader accumulates for the cluster it resolved
ClusterLighting(clu, lightData, tab, clusterIndex, fragPos, normal) ==
  ShadeLoop(clu, lightData, tab, clusterIndex, LoadAt(tab.counts, clusterIndex), 0,
            fragPos, normal)

\* forward_plus.fs.wgsl main: albedo * lighting
ForwardPlusFragment(clu, lightData, tab, frag) ==
  frag.albedo * ClusterLighting(clu, lightData, tab, ForwardPlusClusterIndex(clu, frag),
                                frag.worldPos, frag.worldNormal)

\* clustered_deferred_fullscreen.fs.wgsl main, on the texels of its pixel
DeferredFragment(clu, lightData, tab, px, py, texel) ==
  texel.albedo * ClusterLighting(clu, lightData, tab,
                                 DeferredClusterIndex(clu, px, py, texel.position),
                                 texel.position, texel.normal)

(***************************************************************************)
(* Scene and rasterizer.  The scene is a list of surface points, drawn in  *)
(* list order; each is rasterized to the pixel it projects to.             *)
(***************************************************************************)
Pixels == (0..(ScreenW - 1)) \X (0..(ScreenH - 1))
NoFragment == [px |-> -1, py |-> -1]

\* The scene: surface points [pos, normal, albedo] with unit normals
Scene ==
  << [pos |-> <<-3, 2, -1>>, normal |-> <<0, 0, -1>>, albedo |-> 1],
     [pos |-> <<2, 2, 0>>, normal |-> <<1, 0, 0>>, albedo |-> 2],
     [pos |-> <<4, 2, 0>>, normal |-> <<-1, 0, 0>>, albedo |-> 1],
     [pos |-> <<-7, 2, 5>>, normal |-> <<0, 0, -1>>, albedo |-> 1],
     [pos |-> <<-3, 3, 1>>, normal |-> <<-1, 0, 0>>, albedo |-> 1] >>

\* The vertex shader and the rasterizer: viewProj = perspective(45 degrees,
\* aspect, near, far) * lookAt.  tan(22.5 degrees) is taken as 4142 / 10000.
\* The fragment of a surface point under viewProj, or NoFragment when the
\* point is outside the view frustum.
Rasterize(viewProj, surf) ==
  LET v == ViewTransform(viewProj.view, surf.pos)
      w == -v[3]
      n == viewProj.proj.near
      f == viewProj.proj.far
      tw == 4142 * w
  IN IF \/ w < n \/ w > f
        \/ Abs(v[1]) * 10000 * ScreenH >= tw * ScreenW
        \/ Abs(v[2]) * 10000 >= tw
     THEN NoFragment
     ELSE [px |-> (v[1] * 10000 * ScreenH + tw * ScreenW) \div (2 * tw),
           py |-> ((tw - v[2] * 10000) * ScreenH) \div (2 * tw),
           depth |-> <<f * (w - n), w * (f - n)>>,
           worldPos |-> surf.pos,
           worldNormal |-> surf.normal,
           albedo |-> surf.albedo]

\* depth a < depth b, for rationals with positive denominators
DepthLess(a, b) == a[1] * b[2] < b[1] * a[2]

\* the fragments of the scene, in draw order
Fragments(viewProj) == [k \in 1..Len(Scene) |-> Rasterize(viewProj, Scene[k])]

\* depthCompare "less" on a cleared depth buffer: the index of the fragment
\* that is left at pixel p, 0 when the pixel keeps the clear value
Visible(frags, p) ==
  LET at == {k \in 1..Len(frags) : frags[k].px = p[1] /\ frags[k].py = p[2]}
  IN IF at = {} THEN 0
     ELSE CHOOSE k \in at :
            \A j \in at \ {k} :
               \/ DepthLess(frags[k].depth, frags[j].depth)
               \/ (~DepthLess(frags[j].depth, frags[k].depth) /\ k < j)

\* Forward+ render pass: the colour left in the canvas
ForwardPlusPass(viewProj, clu, lightData, tab) ==
  LET frags == Fragments(viewProj)
  IN [p \in Pixels |->
        LET k == Visible(frags, p)
        IN IF k = 0 THEN 0 ELSE ForwardPlusFragment(clu, lightData, tab, frags[k])]

\* G-buffer pass (clustered_deferred.fs.wgsl): position, normal, albedo of the
\* visible fragment; the clear value elsewhere
ClearTexel == [position |-> <<0, 0, 0>>, normal |-> <<0, 0, 0>>, albedo |-> 0]
GBufferPass(viewProj) ==
  LET frags == Fragments(viewProj)
  IN [p \in Pixels |->
        LET k == Visible(frags, p)
        IN IF k = 0 THEN ClearTexel
           ELSE [position |-> frags[k].worldPos,
                 normal |-> frags[k].worldNormal,
                 albedo |-> frags[k].albedo]]

\* normalize() of the cleared normal (0, 0, 0) is indeterminate: the texel's
\* lighting is, when a light of the resolved cluster is within lightRadius of
\* the stored position
Indeterminate(clu, lightData, tab, px, py, texel) ==
  /\ texel.normal = <<0, 0, 0>>
  /\ LET c == DeferredClusterIndex(clu, px, py, texel.position)
     IN \E i \in 0..(LoadAt(tab.counts, c) - 1) :
          LET l == LoadAt(tab.indices, c * clu.maxLightsPerCluster + i)
          IN /\ l \in DOMAIN lightData.pos
             /\ LET d == VSub(lightData.pos[l], texel.position)
                IN Dot(d, d) <= LightRadius * LightRadius

\* Fullscreen lighting pass; nan is what the device leaves for an
\* indeterminate colour
FullscreenPass(clu, lightData, tab, gbuf, nan) ==
  [p \in Pixels |->
     IF Indeterminate(clu, lightData, tab, p[1], p[2], gbuf[p]) THEN nan
     ELSE DeferredFragment(clu, lightData, tab, p[1], p[2], gbuf[p])]

(***************************************************************************)
(* move_lights.cs.wgsl: the position of every active light is a function   *)
(* of the time uniform, inside the lights' bounding volume.                *)
(***************************************************************************)
LightPath ==
  << <<-6, 2, 0>>, <<-5, 3, 0>>, <<-2, 2, 0>>, <<3, 2, 0>>, <<3, 4, 0>>,
     <<-6, 2, 15>>, <<9, 2, 0>>, <<-8, 2, 1>>, <<-4, 1, -2>>, <<-7, 2, 4>> >>
PosAt(i, time) == LightPath[((time + i) % Len(LightPath)) + 1]
\* A light update that leaves the active count out: every light of the buffer
\* is moved
MoveAllLights(lightData, time) ==
  [lightData EXCEPT !.pos = [i \in DOMAIN @ |-> PosAt(i, time)]]

MoveLightsPass(lightData, time) ==
  [lightData EXCEPT !.pos = [i \in DOMAIN @ |->
                               IF i < lightData.numLights THEN PosAt(i, time) ELSE @[i]]]

(***************************************************************************)
(* State.                                                                  *)
(***************************************************************************)
VARIABLES
  numLights,        \* Lights.numLights
  camera,           \* Camera: [pos, yaw, keys]
  renderMode,       \* the renderer whose draw() the frame loop calls
  frame,            \* frames submitted so far
  events,           \* input events handled since the last frame
  queue,            \* device queue: what was submitted and has not executed
  lightSet,         \* lightSetStorageBuffer: [numLights, pos, color]
  timeUniform,      \* timeUniformBuffer
  cameraUniforms,   \* Camera.uniformsBuffer: the view-projection matrix
  clustering,       \* Camera.clusteringUniformsBuffer
  clusterTable,     \* [counts, indices]: clusterCountsBuffer, clusterIndicesBuffer
  gbuffer,          \* the G-buffer textures, by pixel
  canvas,           \* the canvas texture, by pixel
  pc,               \* position of the shader harness (SpecShader only)
  hist              \* history: what ran for which frame, and on which inputs

hostVars == <<numLights, camera, renderMode, frame, events>>
deviceVars == <<lightSet, timeUniform, cameraUniforms, clustering, clusterTable,
                gbuffer, canvas>>
vars == <<numLights, camera, renderMode, frame, events, queue, lightSet,
          timeUniform, cameraUniforms, clustering, clusterTable, gbuffer, canvas,
          pc, hist>>

RenderModes == {"forward+", "clustered deferred"}
Yaws == 0..3

\* Lights.numLights = 200 of maxNumLights = 5000 at construction
InitialNumLights == 2

\* perspective(fovYDegrees, aspectRatio, Camera.nearPlane, Camera.farPlane)
ProjMat == [near |-> NearPlane, far |-> FarPlane]

\* the view matrix Camera.onFrame computes
ViewMatOf(cam) == [pos |-> cam.pos, yaw |-> cam.yaw]

(***************************************************************************)
(* ClusteringUniformsHost (camera.ts) and struct ClusteringUniforms         *)
(* (common.wgsl), word by word.  A word of the block is [type, val, elem]:  *)
(* the view it was written through, its value, and for a word of a matrix   *)
(* the element it is (elem = -1 for a scalar).                              *)
(***************************************************************************)
viewMatOff == 0
projMatOff == 16
invProjOff == 32
params0Off == 48
params1Off == 52
\* new ArrayBuffer((16 * 3 + 4 + 4) * 4), in words of 4 bytes
BlockWords == 16 * 3 + 4 + 4

F32(v) == [type |-> "f32", val |-> v, elem |-> -1]
U32(v) == [type |-> "u32", val |-> v, elem |-> -1]
MatElem(mat, e) == [type |-> "f32", val |-> mat, elem |-> e]

\* a new ArrayBuffer is zero-filled
NewBlockBuffer == [w \in 0..(BlockWords - 1) |-> U32(0)]

\* Float32Array.set(mat, off): the 16 elements of the matrix from word off on
SetFloats(buf, off, mat) ==
  [w \in DOMAIN buf |-> IF w \in off..(off + 15) THEN MatElem(mat, w - off) ELSE buf[w]]

\* an element store through a typed view; an index outside the view is dropped
SetWord(buf, w, word) == [x \in DOMAIN buf |-> IF x = w THEN word ELSE buf[x]]

\* ClusteringUniformsHost.setMatrices
setMatrices(buf, viewMat, projMat, invProjMat) ==
  SetFloats(SetFloats(SetFloats(buf, viewMatOff, viewMat), projMatOff, projMat),
            invProjOff, invProjMat)

\* A setParams that stores the cluster counts through the float view
setParamsAsFloats(buf, screenW, screenH, near, far, cx, cy, cz, maxLights) ==
  LET b0 == SetWord(buf, params0Off + 0, F32(screenW))
      b1 == SetWord(b0, params0Off + 1, F32(screenH))
      b2 == SetWord(b1, params0Off + 2, F32(near))
      b3 == SetWord(b2, params0Off + 3, F32(far))
      b4 == SetWord(b3, params1Off + 0, F32(cx))
      b5 == SetWord(b4, params1Off + 1, F32(cy))
      b6 == SetWord(b5, params1Off + 2, F32(cz))
  IN SetWord(b6, params1Off + 3, F32(maxLights))

\* ClusteringUniformsHost.setParams
setParams(buf, screenW, screenH, near, far, cx, cy, cz, maxLights) ==
  LET b0 == SetWord(buf, params0Off + 0, F32(screenW))
      b1 == SetWord(b0, params0Off + 1, F32(screenH))
      b2 == SetWord(b1, params0Off + 2, F32(near))
      b3 == SetWord(b2, params0Off + 3, F32(far))
      b4 == SetWord(b3, params1Off + 0, U32(cx))
      b5 == SetWord(b4, params1Off + 1, U32(cy))
      b6 == SetWord(b5, params1Off + 2, U32(cz))
  IN SetWord(b6, params1Off + 3, U32(maxLights))

\* struct ClusteringUniforms: its members in declaration order
ClusteringUniformsMembers ==
  << [name |-> "viewMat", type |-> "mat4x4f"],
     [name |-> "projMat", type |-> "mat4x4f"],
     [name |-> "invProjMat", type |-> "mat4x4f"],
     [name |-> "screenWidth", type |-> "f32"],
     [name |-> "screenHeight", type |-> "f32"],
     [name |-> "near", type |-> "f32"],
     [name |-> "far", type |-> "f32"],
     [name |-> "clustersX", type |-> "u32"],
     [name |-> "clustersY", type |-> "u32"],
     [name |-> "clustersZ", type |-> "u32"],
     [name |-> "maxLightsPerCluster", type |-> "u32"] >>

\* WGSL layout: size and alignment of a member's type, in words of 4 bytes
SizeOfType(t) == IF t = "mat4x4f" THEN 16 ELSE 1
AlignOfType(t) == IF t = "mat4x4f" THEN 4 ELSE 1
RoundUp(k, n) == ((n + k - 1) \div k) * k

\* the word offset of member k: the end of member k - 1, rounded up to the
\* alignment of member k
RECURSIVE OffsetOfMember(_)
OffsetOfMember(k) ==
  IF k = 1 THEN 0
  ELSE RoundUp(AlignOfType(ClusteringUniformsMembers[k].type),
               OffsetOfMember(k - 1) + SizeOfType(ClusteringUniformsMembers[k - 1].type))

\* the size of the struct: the end of its last member, rounded up to the
\* alignment of the struct
StructWords ==
  LET n == Len(ClusteringUniformsMembers)
  IN RoundUp(4, OffsetOfMember(n) + SizeOfType(ClusteringUniformsMembers[n].type))

\* the bits of the f32 that holds the integer v, as a u32
RECURSIVE Log2(_)
Log2(v) == IF v <= 1 THEN 0 ELSE 1 + Log2(v \div 2)
F32Bits(v) ==
  IF v <= 0 THEN 0
  ELSE LET e == Log2(v)
       IN (127 + e) * (2 ^ 23) + ((v - 2 ^ e) * (2 ^ 23)) \div (2 ^ e)

\* what the shader reads from a word as u32 and as f32; the bits of a small
\* u32 are a denormal f32, which is 0 in the units of the model
LoadU32(word) == IF word.type = "u32" THEN word.val ELSE F32Bits(word.val)
LoadF32(word) == IF word.type = "f32" THEN word.val ELSE 0

\* a mat4x4<f32> member: the matrix whose sixteen elements the words hold
LoadMat(buf, off) ==
  IF \A e \in 0..15 : buf[off + e].elem = e /\ buf[off + e].val = buf[off].val
  THEN buf[off].val
  ELSE [elems |-> [e \in 0..15 |-> buf[off + e]]]

\* member k of the struct, read from the words of the uniform buffer
LoadMember(buf, k) ==
  LET t == ClusteringUniformsMembers[k].type
      off == OffsetOfMember(k)
  IN IF t = "mat4x4f" THEN LoadMat(buf, off)
     ELSE IF t = "u32" THEN LoadU32(buf[off])
     ELSE LoadF32(buf[off])

\* the uniform buffer as the shaders see it: var<uniform> clustering
ShaderView(buf) ==
  [viewMat |-> LoadMember(buf, 1), projMat |-> LoadMember(buf, 2),
   invProjMat |-> LoadMember(buf, 3),
   screenWidth |-> LoadMember(buf, 4), screenHeight |-> LoadMember(buf, 5),
   near |-> LoadMember(buf, 6), far |-> LoadMember(buf, 7),
   clustersX |-> LoadMember(buf, 8), clustersY |-> LoadMember(buf, 9),
   clustersZ |-> LoadMember(buf, 10), maxLightsPerCluster |-> LoadMember(buf, 11)]

\* the words of ClusteringUniformsHost after setMatrices and setParams
HostBlock(viewMat, cx, cy, cz, maxLights) ==
  setParams(setMatrices(NewBlockBuffer, viewMat, ProjMat, ProjMat),
            ScreenW, ScreenH, NearPlane, FarPlane, cx, cy, cz, maxLights)

\* ClusteringUniformsHost after setMatrices and setParams, uploaded and seen
\* through struct ClusteringUniforms
ClusteringBlock(viewMat, cx, cy, cz, maxLights) ==
  ShaderView(HostBlock(viewMat, cx, cy, cz, maxLights))

\* a buffer as the device creates it: zero-filled
ZeroClustering ==
  [viewMat |-> [pos |-> <<0, 0, 0>>, yaw |-> 0],
   projMat |-> [near |-> 0, far |-> 0], invProjMat |-> [near |-> 0, far |-> 0],
   screenWidth |-> 0, screenHeight |-> 0, near |-> 0, far |-> 0,
   clustersX |-> 0, clustersY |-> 0, clustersZ |-> 0, maxLightsPerCluster |-> 0]
ZeroViewProj == [view |-> [pos |-> <<0, 0, 0>>, yaw |-> 0], proj |-> [near |-> 0, far |-> 0]]
ZeroTable ==
  [counts |-> [c \in 0..(NumClusters - 1) |-> 0],
   indices |-> [k \in 0..(NumClusters * MaxLightsPerCluster - 1) |-> 0]]

\* Lights.populateLightsBuffer: positions 0, a colour per light
LightColor(i) == i + 1
InitialLights(n) ==
  [numLights |-> n,
   pos |-> [i \in 0..(MaxNumLights - 1) |-> <<0, 0, 0>>],
   color |-> [i \in 0..(MaxNumLights - 1) |-> LightColor(i)]]

InitialHist ==
  [done |-> {},
   assignIn |-> <<>>,
   before |-> ZeroTable,
   invocations |-> <<>>,
   stampCounts |-> [c \in 0..(NumClusters - 1) |-> 0],
   stampIndices |-> [k \in 0..(NumClusters * MaxLightsPerCluster - 1) |-> 0],
   staleRead |-> FALSE,
   requested |-> InitialNumLights,
   params |-> {},
   sent |-> <<>>,
   inFlight |-> {},
   executed |-> <<>>,
   midFrame |-> {},
   runs |-> 0]

(***************************************************************************)
(* History kept beside the program state.                                  *)
(***************************************************************************)
\* after the clustering pass of frame f, whose invocations invs have run on
\* table old: the entries some invocation has stored to carry the stamp of
\* the frame
HistAfterClustering(h, f, clu, lightData, old, invs) ==
  [h EXCEPT
     !.done = @ \cup {<<f, "clustering">>},
     !.executed = Append(@, <<f, "clustering">>),
     !.assignIn = <<clu, lightData>>,
     !.params = @ \cup {<<f, "clustering", clu>>},
     !.before = old,
     !.invocations = invs,
     !.midFrame = {},
     !.runs = @ + 1,
     !.stampCounts =
        LET stored == StoredEntries(StoreLog(invs, "counts", "ascending", 0))
        IN [c \in DOMAIN @ |-> IF c \in stored THEN f ELSE @[c]],
     !.stampIndices =
        LET stored == StoredEntries(StoreLog(invs, "indices", "ascending", 0))
        IN [k \in DOMAIN @ |-> IF k \in stored THEN f ELSE @[k]]]

\* a shading pass of frame f that resolves the clusters cs reads an entry that
\* the clustering pass of frame f did not write
ReadsStale(h, f, clu, tab, cs) ==
  \E c \in cs \cap DOMAIN tab.counts :
     \/ h.stampCounts[c] # f
     \/ \E i \in 0..(tab.counts[c] - 1) :
          LET k == c * clu.maxLightsPerCluster + i
          IN k \in DOMAIN tab.indices /\ h.stampIndices[k] # f

HistAfterShading(h, f, stage, clu, tab, cs) ==
  [h EXCEPT !.done = @ \cup {<<f, stage>>},
            !.executed = Append(@, <<f, stage>>),
            !.inFlight = @ \ {f},
            !.params = @ \cup {<<f, stage, clu>>},
            !.staleRead = @ \/ ReadsStale(h, f, clu, tab, cs)]

HistAfter(h, f, stage) ==
  [h EXCEPT !.done = @ \cup {<<f, stage>>}, !.executed = Append(@, <<f, stage>>)]

\* the stage a command of the queue runs
StageOf(op) ==
  IF op = "forwardPlus" THEN "shading"
  ELSE IF op = "gbuffer" THEN "geometry"
  ELSE IF op = "fullscreen" THEN "resolve"
  ELSE op

\* the commands as <<frame, stage>>, in their order
Stages(cmds) == [k \in 1..Len(cmds) |-> <<cmds[k].frame, StageOf(cmds[k].op)>>]

\* the host has handed the commands cmds to the queue, in this order
HistAfterSubmit(h, cmds) == [h EXCEPT !.sent = @ \o Stages(cmds)]

\* the host has submitted frame f to the queue q: the frame is in flight with
\* an earlier one when the device has not yet run all of q; it is, until its
\* shading pass has run
HistAfterFrame(h, f, q) ==
  [h EXCEPT !.inFlight = IF \E k \in 1..Len(q) : q[k].frame < f THEN {f} ELSE {}]

\* an input event is handled: the frames whose assignment stage has run by
\* then and whose shading pass has not, kept until the next assignment stage
HistAfterEvent(h) ==
  [h EXCEPT !.midFrame =
     {d[1] : d \in {e \in h.done :
                             /\ e[2] = "clustering"
                             /\ <<e[1], "shading">> \notin h.done
                             /\ <<e[1], "resolve">> \notin h.done}}]

\* the clusters the fragment shaders of a pass resolve
ForwardPlusClusters(viewProj, clu) ==
  LET frags == Fragments(viewProj)
  IN {ForwardPlusClusterIndex(clu, frags[k]) :
        k \in {j \in 1..Len(frags) : frags[j] # NoFragment}}
FullscreenClusters(clu, gbuf) ==
  {DeferredClusterIndex(clu, p[1], p[2], gbuf[p].position) : p \in Pixels}

(***************************************************************************)
(* The passes as steps of the device, for the frame f they belong to.      *)
(***************************************************************************)
\* Clustering parameters taken from the camera object as it is when the pass
\* runs, not from the uniform buffer
LiveClustering ==
  ClusteringBlock(ViewMatOf(camera), clustering.clustersX, clustering.clustersY,
                  clustering.clustersZ, clustering.maxLightsPerCluster)

\* binding 2 of the shading bind groups: camera.clusteringUniformsBuffer, the
\* buffer that binding 0 of the clustering bind group holds
ShadingClustering == clustering

DoMoveLights(f) ==
  /\ lightSet' = MoveLightsPass(lightSet, timeUniform)
  /\ hist' = HistAfter(hist, f, "moveLights")
  /\ UNCHANGED <<timeUniform, cameraUniforms, clustering, clusterTable, gbuffer, canvas>>

DoClustering(f) ==
  /\ LET invs == PassInvocations(clustering, lightSet, clusterTable)
     IN /\ \E order \in Schedules :
             clusterTable' = AfterInvocations(clusterTable, invs, order)
        /\ hist' = HistAfterClustering(hist, f, clustering, lightSet, clusterTable,
                                       invs)
  /\ UNCHANGED <<lightSet, timeUniform, cameraUniforms, clustering, gbuffer, canvas>>

DoForwardPlus(f) ==
  /\ canvas' = ForwardPlusPass(cameraUniforms, ShadingClustering, lightSet, clusterTable)
  /\ hist' = HistAfterShading(hist, f, "shading", ShadingClustering, clusterTable,
                              ForwardPlusClusters(cameraUniforms, ShadingClustering))
  /\ UNCHANGED <<lightSet, timeUniform, cameraUniforms, clustering, clusterTable, gbuffer>>

DoGBuffer(f) ==
  /\ gbuffer' = GBufferPass(cameraUniforms)
  /\ hist' = HistAfter(hist, f, "geometry")
  /\ UNCHANGED <<lightSet, timeUniform, cameraUniforms, clustering, clusterTable, canvas>>

DoFullscreen(f) ==
  /\ \E nan \in {0, -1} :
       canvas' = FullscreenPass(ShadingClustering, lightSet, clusterTable, gbuffer, nan)
  /\ hist' = HistAfterShading(hist, f, "resolve", ShadingClustering, clusterTable,
                              FullscreenClusters(ShadingClustering, gbuffer))
  /\ UNCHANGED <<lightSet, timeUniform, cameraUniforms, clustering, clusterTable, gbuffer>>

(***************************************************************************)
(* Host: what one animation frame and the input handlers put in the queue. *)
(***************************************************************************)
Cmd(op, f, data) == [op |-> op, frame |-> f, data |-> data]

\* Camera.processInput, for the keys w and s, at one unit per frame
ProcessInput(cam) ==
  LET d == (IF "w" \in cam.keys THEN 1 ELSE 0) - (IF "s" \in cam.keys THEN 1 ELSE 0)
      front == CameraFront(cam.yaw)
  IN [cam EXCEPT !.pos = VAdd(@, <<d * front[1], d * front[2], d * front[3]>>)]

\* Camera.onFrame, after processInput: the two writeBuffer calls
CameraOnFrame(cam, f) ==
  << Cmd("writeCamera", f, [view |-> ViewMatOf(cam), proj |-> ProjMat]),
     Cmd("writeClustering", f,
         ClusteringBlock(ViewMatOf(cam), ClustersX, ClustersY, ClustersZ,
                         MaxLightsPerCluster)) >>

\* A light update that uploads an active count of its own behind its pass
LightsOnFrameWithCount(time, f) ==
  << Cmd("writeTime", f, time), Cmd("moveLights", f, 0), Cmd("writeNumLights", f, 0) >>

\* Lights.onFrame: writeBuffer(timeUniformBuffer), then the move-lights pass
LightsOnFrame(time, f) ==
  << Cmd("writeTime", f, time), Cmd("moveLights", f, 0) >>

\* A draw that encodes the render pass ahead of the clustering pass
RenderThenCluster(f) ==
  << [op |-> "forwardPlus", frame |-> f, data |-> 0],
     [op |-> "clustering", frame |-> f, data |-> 0] >>

\* A draw that encodes the fullscreen pass ahead of the G-buffer pass
ResolveThenGeometry(f) ==
  << [op |-> "clustering", frame |-> f, data |-> 0],
     [op |-> "fullscreen", frame |-> f, data |-> 0],
     [op |-> "gbuffer", frame |-> f, data |-> 0] >>

\* ForwardPlusRenderer.draw: clustering, then the render pass, in one submit
ForwardPlusDraw(f) ==
  << Cmd("clustering", f, 0), Cmd("forwardPlus", f, 0) >>

\* ClusteredDeferredRenderer.draw: clustering, G-buffer pass, fullscreen pass
ClusteredDeferredDraw(f) ==
  << Cmd("clustering", f, 0), Cmd("gbuffer", f, 0), Cmd("fullscreen", f, 0) >>

\* A frame that draws before it updates the lights
DrawBeforeLights(cam, mode, f) ==
  CameraOnFrame(cam, f)
     \o (IF mode = "forward+" THEN ForwardPlusDraw(f) ELSE ClusteredDeferredDraw(f))
     \o LightsOnFrame(f, f)

\* Renderer.onFrame: camera.onFrame, lights.onFrame, draw
RendererOnFrame(cam, mode, f) ==
  CameraOnFrame(cam, f) \o LightsOnFrame(f, f)
     \o (IF mode = "forward+" THEN ForwardPlusDraw(f) ELSE ClusteredDeferredDraw(f))

\* A queue that runs what is handed to it last first
EnqueueAhead(q, cmds) == cmds \o q

\* Uploads that take effect ahead of the passes the queue holds
EnqueueUploadsFirst(q, cmds) ==
  LET IsUpload(c) == c.op \in {"writeCamera", "writeClustering", "writeTime",
                               "writeNumLights"}
      IsPass(c) == ~IsUpload(c)
  IN SelectSeq(cmds, IsUpload) \o q \o SelectSeq(cmds, IsPass)

\* device.queue.writeBuffer, device.queue.submit: the queue takes the commands
\* behind those it holds
Enqueue(q, cmds) == q \o cmds

Frame ==
  /\ pc = "frames"
  /\ frame < MaxFrames
  /\ LET cam == ProcessInput(camera)
         cmds == RendererOnFrame(cam, renderMode, frame + 1)
     IN /\ camera' = cam
        /\ queue' = Enqueue(queue, cmds)
        /\ hist' = HistAfterFrame(HistAfterSubmit(hist, cmds), frame + 1, queue)
  /\ frame' = frame + 1
  /\ UNCHANGED <<numLights, renderMode, events, lightSet, timeUniform, cameraUniforms,
                 clustering, clusterTable, gbuffer, canvas, pc>>

\* an input event can be handled between two frames
CanHandleEvent == pc = "frames" /\ events < MaxEvents /\ frame < MaxFrames

\* A light-count control that lets every request through
LightCountUnchecked(n) == n

\* the GUI's light-count control keeps the count within the capacity of the
\* light buffer
LightCountControl(n) == Clamp(n, 0, MaxNumLights)

\* the GUI's light-count control: a request for n lights sets Lights.numLights
\* and calls Lights.updateLightSetUniformNumLights
SetNumLights ==
  /\ CanHandleEvent
  /\ \E n \in 0..(MaxNumLights + 1) :
       /\ LightCountControl(n) # numLights
       /\ numLights' = LightCountControl(n)
       /\ LET cmds == << Cmd("writeNumLights", frame + 1, LightCountControl(n)) >>
          IN /\ queue' = Enqueue(queue, cmds)
             /\ hist' = HistAfterSubmit([hist EXCEPT !.requested = n], cmds)
  /\ events' = events + 1
  /\ UNCHANGED <<camera, renderMode, frame, lightSet, timeUniform, cameraUniforms,
                 clustering, clusterTable, gbuffer, canvas, pc>>

\* Camera.onMouseMove -> rotateCamera, by quarter turns
MouseMove ==
  /\ CanHandleEvent
  /\ \E dx \in {1, 3} : camera' = [camera EXCEPT !.yaw = (@ + dx) % 4]
  /\ events' = events + 1
  /\ hist' = HistAfterEvent(hist)
  /\ UNCHANGED <<numLights, renderMode, frame, queue, lightSet, timeUniform,
                 cameraUniforms, clustering, clusterTable, gbuffer, canvas, pc>>

\* Camera.onKeyEvent: keys[key] = down
KeyEvent ==
  /\ CanHandleEvent
  /\ \E key \in {"w", "s"} :
       /\ key \notin camera.keys
       /\ camera' = [camera EXCEPT !.keys = @ \cup {key}]
  /\ events' = events + 1
  /\ hist' = HistAfterEvent(hist)
  /\ UNCHANGED <<numLights, renderMode, frame, queue, lightSet, timeUniform,
                 cameraUniforms, clustering, clusterTable, gbuffer, canvas, pc>>

\* the GUI's renderer selector: the next frames are drawn by another renderer
\* over the same Camera and Lights
SetRenderer ==
  /\ CanHandleEvent
  /\ \E m \in RenderModes \ {renderMode} : renderMode' = m
  /\ events' = events + 1
  /\ UNCHANGED <<numLights, camera, frame, queue, lightSet, timeUniform,
                 cameraUniforms, clustering, clusterTable, gbuffer, canvas, pc, hist>>

(***************************************************************************)
(* Device: the queue executes what was submitted, in submission order.     *)
(***************************************************************************)
Executes(op) == pc = "frames" /\ queue # <<>> /\ Head(queue).op = op

ExecWriteCamera ==
  /\ Executes("writeCamera")
  /\ cameraUniforms' = Head(queue).data
  /\ queue' = Tail(queue)
  /\ hist' = HistAfter(hist, Head(queue).frame, "writeCamera")
  /\ UNCHANGED <<hostVars, lightSet, timeUniform, clustering, clusterTable, gbuffer,
                 canvas, pc>>

ExecWriteClustering ==
  /\ Executes("writeClustering")
  /\ clustering' = Head(queue).data
  /\ queue' = Tail(queue)
  /\ hist' = HistAfter(hist, Head(queue).frame, "writeClustering")
  /\ UNCHANGED <<hostVars, lightSet, timeUniform, cameraUniforms, clusterTable, gbuffer,
                 canvas, pc>>

ExecWriteTime ==
  /\ Executes("writeTime")
  /\ timeUniform' = Head(queue).data
  /\ queue' = Tail(queue)
  /\ hist' = HistAfter(hist, Head(queue).frame, "writeTime")
  /\ UNCHANGED <<hostVars, lightSet, cameraUniforms, clustering, clusterTable, gbuffer,
                 canvas, pc>>

\* An upload of the count that writes the whole buffer anew
WriteWholeBuffer(lights, n) == InitialLights(n)

\* writeBuffer(lightSetStorageBuffer, 0, new Uint32Array([numLights])): the
\* first word of the buffer, the header's numLights
WriteNumLights(lights, n) == [lights EXCEPT !.numLights = n]

ExecWriteNumLights ==
  /\ Executes("writeNumLights")
  /\ lightSet' = WriteNumLights(lightSet, Head(queue).data)
  /\ queue' = Tail(queue)
  /\ hist' = HistAfter(hist, Head(queue).frame, "writeNumLights")
  /\ UNCHANGED <<hostVars, timeUniform, cameraUniforms, clustering, clusterTable,
                 gbuffer, canvas, pc>>

ExecMoveLights ==
  /\ Executes("moveLights")
  /\ DoMoveLights(Head(queue).frame)
  /\ queue' = Tail(queue)
  /\ UNCHANGED <<hostVars, pc>>

ExecClustering ==
  /\ Executes("clustering")
  /\ DoClustering(Head(queue).frame)
  /\ queue' = Tail(queue)
  /\ UNCHANGED <<hostVars, pc>>

ExecForwardPlus ==
  /\ Executes("forwardPlus")
  /\ DoForwardPlus(Head(queue).frame)
  /\ queue' = Tail(queue)
  /\ UNCHANGED <<hostVars, pc>>

ExecGBuffer ==
  /\ Executes("gbuffer")
  /\ DoGBuffer(Head(queue).frame)
  /\ queue' = Tail(queue)
  /\ UNCHANGED <<hostVars, pc>>

ExecFullscreen ==
  /\ Executes("fullscreen")
  /\ DoFullscreen(Head(queue).frame)
  /\ queue' = Tail(queue)
  /\ UNCHANGED <<hostVars, pc>>

(***************************************************************************)
(* The application: construction, then frames and input events on the host *)
(* and the queue on the device.                                            *)
(***************************************************************************)
InitialCamera == [pos |-> <<-7, 2, 0>>, yaw |-> 0, keys |-> {}]
ClearGBuffer == [p \in Pixels |-> ClearTexel]
ClearCanvas == [p \in Pixels |-> 0]

Init ==
  /\ numLights = InitialNumLights
  /\ camera = InitialCamera
  /\ renderMode \in RenderModes
  /\ frame = 0
  /\ events = 0
  /\ queue = <<>>
  /\ lightSet = InitialLights(InitialNumLights)
  /\ timeUniform = 0
  /\ cameraUniforms = ZeroViewProj
  /\ clustering = ZeroClustering
  /\ clusterTable = ZeroTable
  /\ gbuffer = ClearGBuffer
  /\ canvas = ClearCanvas
  /\ pc = "frames"
  /\ hist = InitialHist

Next ==
  \/ Frame
  \/ SetNumLights
  \/ MouseMove
  \/ KeyEvent
  \/ SetRenderer
  \/ ExecWriteCamera
  \/ ExecWriteClustering
  \/ ExecWriteTime
  \/ ExecWriteNumLights
  \/ ExecMoveLights
  \/ ExecClustering
  \/ ExecForwardPlus
  \/ ExecGBuffer
  \/ ExecFullscreen

Spec == Init /\ [][Next]_vars

(***************************************************************************)
(* The shaders on their own: the clustering uniforms the host can write    *)
(* for a grid of one or all clusters per axis, any active count, lights    *)
(* anywhere on their path; then the clustering pass twice, the Forward+    *)
(* pass, the G-buffer pass and the fullscreen pass, all of one frame.      *)
(***************************************************************************)
InitShader ==
  /\ numLights \in 0..MaxNumLights
  /\ \E yaw \in Yaws : camera = [InitialCamera EXCEPT !.yaw = yaw]
  /\ renderMode = "forward+"
  /\ frame = 1
  /\ events = 0
  /\ queue = <<>>
  /\ \E t \in 0..(Len(LightPath) - 1) :
       lightSet = MoveLightsPass(InitialLights(numLights), t)
  /\ timeUniform = 0
  /\ cameraUniforms = [view |-> ViewMatOf(camera), proj |-> ProjMat]
  /\ \E cx \in {1, ClustersX}, cy \in {1, ClustersY}, cz \in {1, ClustersZ},
        m \in 1..MaxLightsPerCluster :
       clustering = ClusteringBlock(ViewMatOf(camera), cx, cy, cz, m)
  /\ clusterTable = ZeroTable
  /\ gbuffer = ClearGBuffer
  /\ canvas = ClearCanvas
  /\ pc = "input"
  /\ hist = InitialHist

ShaderClustering ==
  /\ pc \in {"input", "assigned"}
  /\ DoClustering(frame)
  /\ pc' = IF pc = "input" THEN "assigned" ELSE "reassigned"
  /\ UNCHANGED <<hostVars, queue>>

ShaderForwardPlus ==
  /\ pc = "reassigned"
  /\ DoForwardPlus(frame)
  /\ pc' = "forward"
  /\ UNCHANGED <<hostVars, queue>>

ShaderGBuffer ==
  /\ pc = "forward"
  /\ DoGBuffer(frame)
  /\ pc' = "geometry"
  /\ UNCHANGED <<hostVars, queue>>

ShaderFullscreen ==
  /\ pc = "geometry"
  /\ DoFullscreen(frame)
  /\ pc' = "resolved"
  /\ UNCHANGED <<hostVars, queue>>

NextShader ==
  \/ ShaderClustering
  \/ ShaderForwardPlus
  \/ ShaderGBuffer
  \/ ShaderFullscreen

SpecShader == InitShader /\ [][NextShader]_vars

(***************************************************************************)
(* Properties of the cluster light table.                                  *)
(***************************************************************************)
\* the inputs of the latest clustering pass, once one has run
Assigned == hist.runs > 0
AssignedClu == hist.assignIn[1]
AssignedLights == hist.assignIn[2]

GridClusters(clu) == 0..(totalClusters(clu) - 1)
ActiveLights(lightData) == 0..(lightData.numLights - 1)

\* the valid entries of cluster c: the first counts[c] of its segment
Listed(clu, tab, c) ==
  {LoadAt(tab.indices, c * clu.maxLightsPerCluster + i) :
     i \in 0..(LoadAt(tab.counts, c) - 1)}

\* the active lights that reach the append in the invocation of cluster c
PassingLights(clu, lightData, c) ==
  {i \in ActiveLights(lightData) :
     LightPasses(clu, LightAngles(clu, lightData.pos[i]), c)}

\* C1: after the assignment stage has run, whatever the camera, the light
\* positions and the active count, every cluster c of the grid has
\* 0 <= counts[c] <= maxLightsPerCluster.
C1_CountsWithinCapacity ==
  Assigned =>
    \A c \in GridClusters(AssignedClu) :
       /\ 0 <= clusterTable.counts[c]
       /\ clusterTable.counts[c] <= AssignedClu.maxLightsPerCluster

\* a cluster that more lights reach than it can hold, left at its capacity
C1_Witness ==
  /\ Assigned
  /\ \E c \in GridClusters(AssignedClu) :
       /\ Cardinality(PassingLights(AssignedClu, AssignedLights, c))
            > AssignedClu.maxLightsPerCluster
       /\ clusterTable.counts[c] = AssignedClu.maxLightsPerCluster

\* C2: after the assignment stage has run, every valid entry
\* indices[c * maxLightsPerCluster + i], i < counts[c], is the index of an
\* active light: it is in [0, numLights).
C2_EntriesAreActiveLights ==
  Assigned =>
    \A c \in GridClusters(AssignedClu) :
       \A i \in 0..(clusterTable.counts[c] - 1) :
          LET l == LoadAt(clusterTable.indices,
                          c * AssignedClu.maxLightsPerCluster + i)
          IN 0 <= l /\ l < AssignedLights.numLights

\* a cluster that lists the last active light, with inactive lights behind it
C2_Witness ==
  /\ Assigned
  /\ AssignedLights.numLights < MaxNumLights
  /\ \E c \in GridClusters(AssignedClu) :
       /\ clusterTable.counts[c] > 0
       /\ (AssignedLights.numLights - 1) \in Listed(AssignedClu, clusterTable, c)

(***************************************************************************)
(* Overlap of a light's bounding sphere with a cluster, axis by axis, in   *)
(* the quantities of the clustering shader: the sphere spans the depths    *)
(* lz -/+ lightRadius and the angles angle -/+ halfAngle; a cluster spans  *)
(* [zNear, zFar], [angleLeft, angleRight] and the vertical interval        *)
(* between angleUp and angleDown.                                          *)
(***************************************************************************)
OverlapsDepth(clu, la, c) ==
  LET z == clusterZOf(clu, c)
  IN /\ (la.lz + LightRadius) * clu.clustersZ >= zNear(clu, z)
     /\ (la.lz - LightRadius) * clu.clustersZ <= zFar(clu, z)

OverlapsHoriz(clu, la, c) ==
  LET x == clusterXOf(clu, c)
  IN /\ (la.horizAngle + la.halfAngle) * AngleDenX(clu) >= angleLeft(clu, x)
     /\ (la.horizAngle - la.halfAngle) * AngleDenX(clu) <= angleRight(clu, x)

OverlapsVert(clu, la, c) ==
  LET y == clusterYOf(clu, c)
      low == Min(angleUp(clu, y), angleDown(clu, y))
      high == Max(angleUp(clu, y), angleDown(clu, y))
  IN /\ (la.vertAngle + la.halfAngle) * AngleDenY(clu) >= low
     /\ (la.vertAngle - la.halfAngle) * AngleDenY(clu) <= high

Overlaps(clu, la, c) ==
  OverlapsDepth(clu, la, c) /\ OverlapsHoriz(clu, la, c) /\ OverlapsVert(clu, la, c)

\* the centre of the light is inside the cluster: in front of the camera,
\* within its depth slice and within its angular bounds
CentreInside(clu, la, c) ==
  /\ la.lz > LightRadius
  /\ OverlapsDepth(clu, [la EXCEPT !.lz = la.lz - LightRadius], c)
  /\ OverlapsDepth(clu, [la EXCEPT !.lz = la.lz + LightRadius], c)
  /\ OverlapsHoriz(clu, [la EXCEPT !.halfAngle = 0], c)
  /\ OverlapsVert(clu, [la EXCEPT !.halfAngle = 0], c)

\* C3: false negatives occur only at overflow: an active light whose bounding
\* sphere overlaps cluster c's angular wedge and depth slice is among the first
\* counts[c] entries of c's list whenever c holds fewer than
\* maxLightsPerCluster lights.
C3_NoFalseNegativeBelowCapacity ==
  Assigned =>
    \A c \in GridClusters(AssignedClu) :
       \A i \in ActiveLights(AssignedLights) :
          ( /\ Overlaps(AssignedClu, LightAngles(AssignedClu, AssignedLights.pos[i]), c)
            /\ clusterTable.counts[c] < AssignedClu.maxLightsPerCluster )
          => i \in Listed(AssignedClu, clusterTable, c)

\* the same for the lights whose centre is inside the cluster
C3_CentreInsideIsListed ==
  Assigned =>
    \A c \in GridClusters(AssignedClu) :
       \A i \in ActiveLights(AssignedLights) :
          ( /\ CentreInside(AssignedClu, LightAngles(AssignedClu, AssignedLights.pos[i]), c)
            /\ clusterTable.counts[c] < AssignedClu.maxLightsPerCluster )
          => i \in Listed(AssignedClu, clusterTable, c)

\* C4: no false positives beyond the per-axis angular approximation: the light
\* of every valid entry of cluster c has a bounding sphere that overlaps c's
\* depth slice and c's horizontal and vertical angular bounds.
C4_ListedLightsOverlap ==
  Assigned =>
    \A c \in GridClusters(AssignedClu) :
       \A i \in 0..(clusterTable.counts[c] - 1) :
          LET l == LoadAt(clusterTable.indices,
                          c * AssignedClu.maxLightsPerCluster + i)
          IN /\ l \in ActiveLights(AssignedLights)
             /\ Overlaps(AssignedClu,
                         LightAngles(AssignedClu, AssignedLights.pos[l]), c)

\* a grid of several slices and rows in which one cluster lists a light and
\* another cluster does not, the light failing a test there
C4_Witness ==
  /\ Assigned
  /\ AssignedClu.clustersZ > 1 /\ AssignedClu.clustersY > 1
  /\ \E i \in ActiveLights(AssignedLights) :
       LET la == LightAngles(AssignedClu, AssignedLights.pos[i])
       IN /\ \E c \in GridClusters(AssignedClu) :
               i \in Listed(AssignedClu, clusterTable, c)
          /\ \E c \in GridClusters(AssignedClu) :
               /\ ~Overlaps(AssignedClu, la, c)
               /\ i \notin Listed(AssignedClu, clusterTable, c)

(***************************************************************************)
(* Grid self-consistency: the cell of the assignment stage that contains a *)
(* fragment against the index the shading passes resolve for it.           *)
(***************************************************************************)
\* the view-space position of a fragment lies strictly inside the bounds the
\* clustering shader computes for flat index c
InsideCell(clu, worldPos, c) ==
  LET v == ViewTransform(clu.viewMat, worldPos)
      w == -v[3]
      x == clusterXOf(clu, c)
      y == clusterYOf(clu, c)
      z == clusterZOf(clu, c)
  IN /\ w > 0
     /\ zNear(clu, z) < w * clu.clustersZ /\ w * clu.clustersZ < zFar(clu, z)
     /\ angleLeft(clu, x) < Atan2(v[1], w) * AngleDenX(clu)
     /\ Atan2(v[1], w) * AngleDenX(clu) < angleRight(clu, x)
     /\ angleUp(clu, y) < Atan2(v[2], w) * AngleDenY(clu)
     /\ Atan2(v[2], w) * AngleDenY(clu) < angleDown(clu, y)

\* the fragments the rasterizer produces for the scene under the camera
SceneFragments ==
  LET frags == Fragments(cameraUniforms)
  IN {frags[k] : k \in {j \in 1..Len(frags) : frags[j] # NoFragment}}

\* C5: grid self-consistency: a fragment lying inside the angular and depth
\* bounds the assignment stage computes for flat index c resolves to index c
\* in both shading passes.
C5_GridSelfConsistent ==
  Assigned =>
    \A frag \in SceneFragments :
       \A c \in GridClusters(AssignedClu) :
          InsideCell(AssignedClu, frag.worldPos, c)
          => /\ ForwardPlusClusterIndex(AssignedClu, frag) = c
             /\ DeferredClusterIndex(AssignedClu, frag.px, frag.py, frag.worldPos) = c

\* the same for the index of the deferred fullscreen pass alone
C5_DeferredIndexIsCell ==
  Assigned =>
    \A frag \in SceneFragments :
       \A c \in GridClusters(AssignedClu) :
          InsideCell(AssignedClu, frag.worldPos, c)
          => DeferredClusterIndex(AssignedClu, frag.px, frag.py, frag.worldPos) = c

\* the same for the depth slice of the Forward+ pass alone
C5_ForwardPlusSliceIsCell ==
  Assigned =>
    \A frag \in SceneFragments :
       \A c \in GridClusters(AssignedClu) :
          InsideCell(AssignedClu, frag.worldPos, c)
          => ClusterZIndex(AssignedClu, ForwardPlusViewDepth(AssignedClu, frag.depth))
               = clusterZOf(AssignedClu, c)

(***************************************************************************)
(* Frames.                                                                 *)
(***************************************************************************)
Ran(f, stage) == <<f, stage>> \in hist.done
Frames == 1..MaxFrames

\* C6: within every frame the stages run in the order Light Update, then
\* Light-Cluster Assignment, then (deferred renderer) the Geometry pass, then
\* the Shading/Resolve pass, each stage complete before the next starts: no
\* stage of a frame has run unless the stages before it have.
C6_StagesInOrder ==
  \A f \in Frames :
     /\ Ran(f, "clustering") => Ran(f, "moveLights")
     /\ Ran(f, "geometry") => Ran(f, "clustering")
     /\ Ran(f, "shading") => Ran(f, "clustering")
     /\ Ran(f, "resolve") => Ran(f, "geometry")

\* a frame of each renderer has run all its stages
C6_Witness ==
  \E f \in Frames, g \in Frames :
     /\ Ran(f, "moveLights") /\ Ran(f, "clustering") /\ Ran(f, "geometry")
     /\ Ran(f, "resolve")
     /\ Ran(g, "moveLights") /\ Ran(g, "clustering") /\ Ran(g, "shading")

\* C7: every counts entry and every indices entry a shading pass reads (the
\* entries i < counts[c] of the cluster it resolves) was written by the
\* assignment run of the same frame; nothing left from an earlier frame is
\* read.
C7_NoStaleRead == ~hist.staleRead

\* a shading pass of a later frame has read a non-empty list, and before it
\* the camera or the active count had changed
C7_Witness ==
  /\ \E f \in Frames \ {1} : Ran(f, "shading") \/ Ran(f, "resolve")
  /\ events > 0
  /\ queue = <<>>
  /\ \E c \in GridClusters(clustering) : clusterTable.counts[c] > 0

(***************************************************************************)
(* The two renderers on one scene, camera and light configuration.         *)
(***************************************************************************)
\* the pixels that show a surface
SurfacePixels == {p \in Pixels : Visible(Fragments(cameraUniforms), p) # 0}

\* what the Forward+ pass leaves in the canvas for the buffers as they are
ForwardPlusCanvas ==
  ForwardPlusPass(cameraUniforms, clustering, lightSet, clusterTable)

\* C8: Forward+ and Clustered Deferred, on an identical scene, camera and
\* light configuration, produce equal per-pixel lighting output: at every
\* pixel that shows a surface, the colour the fullscreen pass has written is
\* the colour the Forward+ pass writes.
C8_SamePixelOutput ==
  pc = "resolved" =>
    \A p \in SurfacePixels : canvas[p] = ForwardPlusCanvas[p]

\* the same for the cluster the two passes resolve at the pixel
C8_SameClusterResolved ==
  pc = "resolved" =>
    \A p \in SurfacePixels :
       LET frags == Fragments(cameraUniforms)
           frag == frags[Visible(frags, p)]
       IN ForwardPlusClusterIndex(clustering, frag)
            = DeferredClusterIndex(clustering, p[1], p[2], gbuffer[p].position)

(***************************************************************************)
(* Assignment as a function of its inputs.                                 *)
(***************************************************************************)
\* C9: idempotence of assignment: a second run of the assignment stage on the
\* same clustering uniforms, light positions and numLights leaves counts and
\* indices, entry for entry, as the first run left them.
C9_SecondRunChangesNothing ==
  [][(pc = "assigned" /\ pc' = "reassigned") => clusterTable' = clusterTable]_vars

\* two runs have been made on a configuration that fills a cluster to its
\* capacity and leaves another with room
C9_Witness ==
  /\ pc = "reassigned"
  /\ hist.runs = 2
  /\ \E c \in GridClusters(clustering) :
       clusterTable.counts[c] = clustering.maxLightsPerCluster
  /\ \E c \in GridClusters(clustering) :
       /\ clusterTable.counts[c] > 0
       /\ clusterTable.counts[c] < clustering.maxLightsPerCluster

\* the distance from the camera to light i is greater than far + lightRadius
BeyondFar(clu, lightData, i) ==
  LET d == VSub(lightData.pos[i], clu.viewMat.pos)
  IN Dot(d, d) > (clu.far + LightRadius) * (clu.far + LightRadius)

\* C10: a light at a distance greater than far + lightRadius from the camera,
\* in any direction, is assigned to zero clusters: after assignment its index
\* is in no cluster's valid list.
C10_FarLightInNoCluster ==
  Assigned =>
    \A i \in ActiveLights(AssignedLights) :
       BeyondFar(AssignedClu, AssignedLights, i)
       => \A c \in GridClusters(AssignedClu) :
             i \notin Listed(AssignedClu, clusterTable, c)


(***************************************************************************)
(* C11: truncation at capacity.                                            *)
(***************************************************************************)
\* the element of the set S of numbers that has i smaller elements of S
NthSmallest(S, i) == CHOOSE x \in S : Cardinality({y \in S : y < x}) = i

\* the assignment stage is what the device has run last
JustAssigned ==
  /\ Assigned
  /\ hist.executed[Len(hist.executed)][2] = "clustering"

\* the invocations of the latest clustering pass, and the segment of cluster c
AssignedInvocations == hist.invocations
Segment(clu, c) == (c * clu.maxLightsPerCluster)..((c + 1) * clu.maxLightsPerCluster - 1)

OnForwardAxis(viewMat, pos) ==
  LET v == ViewTransform(viewMat, pos)
  IN v[1] = 0 /\ v[2] = 0 /\ v[3] < 0

CentrePixel == <<ScreenW \div 2, ScreenH \div 2>>

\* the fragment shown at the centre pixel lies on the forward axis, within
\* lightRadius of the light at lightPos, and faces it
CentreFragmentFaces(viewProj, lightPos) ==
  LET frags == Fragments(viewProj)
      k == Visible(frags, CentrePixel)
  IN /\ k # 0
     /\ OnForwardAxis(viewProj.view, frags[k].worldPos)
     /\ LET toLight == VSub(lightPos, frags[k].worldPos)
        IN /\ Dot(toLight, toLight) < LightRadius * LightRadius
           /\ Dot(frags[k].worldNormal, toLight) > 0
           /\ frags[k].albedo > 0

\* C12: with grid (1,1,1) and a single active light on the camera's forward
\* axis, within lightRadius of a fragment at screen centre that faces it, the
\* assignment stage gives cluster 0 a count of 1 and the Forward+ pass writes
\* a colour greater than zero at that fragment.
C12_AxisLightLitAtCentre ==
  ( /\ pc = "forward"
    /\ totalClusters(clustering) = 1
    /\ lightSet.numLights = 1
    /\ OnForwardAxis(clustering.viewMat, lightSet.pos[0])
    /\ CentreFragmentFaces(cameraUniforms, lightSet.pos[0]) )
  => /\ clusterTable.counts[0] = 1
     /\ canvas[CentrePixel] > 0

\* the same for the count alone
C12_AxisLightCounted ==
  ( /\ Assigned
    /\ totalClusters(AssignedClu) = 1
    /\ AssignedLights.numLights = 1
    /\ OnForwardAxis(AssignedClu.viewMat, AssignedLights.pos[0])
    /\ CentreFragmentFaces(cameraUniforms, AssignedLights.pos[0]) )
  => clusterTable.counts[0] = 1


(***************************************************************************)
(* C13: the active light count stays within the capacity.                  *)
(***************************************************************************)
\* the counts on their way to the header of the light buffer
PendingNumLights ==
  {queue[k].data : k \in {j \in 1..Len(queue) : queue[j].op = "writeNumLights"}}

\* C13: the numLights value in the header of the light buffer, and every
\* value queued for upload into it, satisfies 0 <= n <= maxNumLights; a
\* request above the capacity is clamped by the control before the upload.
C13_NumLightsWithinCapacity ==
  /\ lightSet.numLights \in 0..MaxNumLights
  /\ PendingNumLights \subseteq 0..MaxNumLights
  /\ numLights \in 0..MaxNumLights

\* a request above the capacity has been made, and the header holds the
\* capacity
C13_Witness ==
  /\ hist.requested > MaxNumLights
  /\ lightSet.numLights = MaxNumLights
  /\ PendingNumLights = {}


(***************************************************************************)
(* C14: only the active prefix of the light buffer takes part.             *)
(***************************************************************************)
\* the light indices the invocations of the latest clustering pass have stored
StoredLights ==
  UNION {{AssignedInvocations[i].indices[j][2] :
            j \in 1..Len(AssignedInvocations[i].indices)} :
         i \in 1..Len(AssignedInvocations)}

\* no step moves a light at or beyond the active count of the buffer
InactiveLightsStay ==
  \A i \in DOMAIN lightSet.pos :
     i >= lightSet.numLights => lightSet'.pos[i] = lightSet.pos[i]

\* C14: with active count n, the assignment stage tests n lights at most and
\* stores no light index >= n into a cluster, and no step of the device, the
\* light update stage included, moves a light with index >= n.
C14_OnlyActivePrefix ==
  /\ [](Assigned =>
          /\ Len(AnglesOf(AssignedClu, AssignedLights, 0)) <= AssignedLights.numLights
          /\ StoredLights \subseteq ActiveLights(AssignedLights))
  /\ [][InactiveLightsStay]_vars

\* light update and assignment have run with an inactive light in the buffer:
\* the active lights are listed, the inactive one is where the buffer was
\* created with it
C14_Witness ==
  /\ Ran(frame, "moveLights")
  /\ Ran(frame, "clustering")
  /\ lightSet.numLights \in 1..(MaxNumLights - 1)
  /\ AssignedLights = lightSet
  /\ StoredLights # {}
  /\ lightSet.pos[0] # <<0, 0, 0>>
  /\ lightSet.pos[lightSet.numLights] = <<0, 0, 0>>


(***************************************************************************)
(* C15: one set of clustering parameters per frame.                        *)
(***************************************************************************)
ShadingStages == {"shading", "resolve"}

\* C15: the clustering parameters the assignment stage of a frame has read
\* are the parameters every shading pass of that frame has read, whenever
\* keyboard and mouse events are handled; a frame uploads them once.
C15_SameParametersInFrame ==
  /\ \A a \in hist.params, b \in hist.params : a[1] = b[1] => a[3] = b[3]
  /\ \A f \in 1..MaxFrames :
       Cardinality({k \in 1..Len(queue) :
                      queue[k].op = "writeClustering" /\ queue[k].frame = f}) <= 1

\* an event has turned the camera after the assignment stage of a frame and
\* before its shading pass, which has run since
C15_Witness ==
  \E f \in 1..MaxFrames, s \in ShadingStages :
     /\ Ran(f, s)
     /\ f \in hist.midFrame
     /\ camera.yaw # clustering.viewMat.yaw
     /\ \E a \in hist.params : a[1] = f /\ a[2] = "clustering"
     /\ \E a \in hist.params : a[1] = f /\ a[2] = s


(***************************************************************************)
(* C16: what a frame submits, and the order the device runs it in.         *)
(***************************************************************************)
\* the queue.submit call that hands a stage to the queue: Lights.onFrame
\* submits the encoder of the light update, draw the encoder of the
\* assignment and the render passes; the uploads are queue.writeBuffer calls
CommandBufferOf(stage) ==
  IF stage = "moveLights" THEN "Lights.onFrame"
  ELSE IF stage \in {"clustering", "shading", "geometry", "resolve"} THEN "draw"
  ELSE "writeBuffer"

\* the command buffers submitted for frame f
CommandBuffers(f) ==
  {CommandBufferOf(hist.sent[k][2]) :
     k \in {j \in 1..Len(hist.sent) : hist.sent[j][1] = f}} \ {"writeBuffer"}

\* what the device has run, followed by what the queue holds, is what the host
\* has submitted, in the order of submission
ExecutedInSubmissionOrder == hist.sent = hist.executed \o Stages(queue)

\* C16 as stated: the host submits one command sequence per frame, and the
\* stages of the frame execute on the device in the order in which they were
\* submitted.
C16_OneSubmitInOrder ==
  /\ \A f \in 1..frame : Cardinality(CommandBuffers(f)) = 1
  /\ ExecutedInSubmissionOrder

\* C16, amended: for every frame the host submits two command buffers to the
\* one queue, the light update by Lights.onFrame and then the assignment and
\* render passes by draw, and the stages execute on the device in the order
\* in which they were submitted.
C16_TwoSubmitsInOrder ==
  /\ \A f \in 1..frame : CommandBuffers(f) = {"Lights.onFrame", "draw"}
  /\ \A i \in 1..Len(hist.sent), j \in 1..Len(hist.sent) :
       ( /\ hist.sent[i][1] = hist.sent[j][1]
         /\ CommandBufferOf(hist.sent[i][2]) = "Lights.onFrame"
         /\ CommandBufferOf(hist.sent[j][2]) = "draw" ) => i < j
  /\ ExecutedInSubmissionOrder

\* two frames are in flight: the device has run the light update of frame 1
\* and the queue holds stages of frame 1 and of frame 2
C16_Witness ==
  /\ frame = 2
  /\ Ran(1, "moveLights")
  /\ \E k \in 1..Len(queue) : queue[k].frame = 1 /\ queue[k].op = "clustering"
  /\ \E k \in 1..Len(queue) : queue[k].frame = 2 /\ queue[k].op = "moveLights"


(***************************************************************************)
(* C17: who modifies the cluster table and the light buffer.               *)
(***************************************************************************)
\* the step is the device running a command of the given stage
StepRuns(stage) ==
  /\ Len(hist'.executed) = Len(hist.executed) + 1
  /\ hist'.executed[Len(hist'.executed)][2] = stage

\* the device is between two frames: what it has run of the frames' commands
\* and what the queue still holds lie on the two sides of frame f
BetweenFrames(f) ==
  /\ \A k \in 1..Len(hist.executed) :
       hist.executed[k][2] # "writeNumLights" => hist.executed[k][1] < f
  /\ \A k \in 1..Len(queue) : queue[k].frame >= f

Writes(stage) ==
  IF stage \in {"writeNumLights", "moveLights"} THEN {"lightSet"}
  ELSE IF stage = "writeClustering" THEN {"clustering"}
  ELSE IF stage = "clustering" THEN {"clusterTable"}
  ELSE {}
Reads(stage) ==
  IF stage = "moveLights" THEN {"lightSet"}
  ELSE IF stage = "clustering" THEN {"lightSet", "clustering"}
  ELSE IF stage \in {"shading", "resolve"} THEN {"lightSet", "clustering", "clusterTable"}
  ELSE {}

LastClustering ==
  Greatest({k \in 1..Len(hist.executed) : hist.executed[k][2] = "clustering"})
AssignedFrame == hist.executed[LastClustering][1]

\* C19: when the assignment stage of a frame runs, the light update stage of
\* that frame has run, and the positions assignment reads for the active
\* lights are those the light update of that frame has written, not those of
\* the frame before.
C19_AssignmentReadsFramePositions ==
  Assigned =>
    /\ \E k \in 1..(LastClustering - 1) :
          hist.executed[k] = <<AssignedFrame, "moveLights">>
    /\ \A i \in ActiveLights(AssignedLights) :
          i \in DOMAIN AssignedLights.pos =>
            AssignedLights.pos[i] = PosAt(i, AssignedFrame)

\* the assignment stage of frame 2 has read a light where the light update of
\* frame 2 has put it, away from where frame 1 had it
C19_Witness ==
  /\ Assigned
  /\ AssignedFrame = 2
  /\ Ran(1, "clustering")
  /\ AssignedLights.numLights >= 1
  /\ AssignedLights.pos[0] = PosAt(0, 2)
  /\ PosAt(0, 2) # PosAt(0, 1)


(***************************************************************************)
(* C20: the invocations of the assignment stage do not depend on each      *)
(* other.                                                                  *)
(***************************************************************************)
\* C20: the invocation of cluster c stores to counts[c] and to indices
\* entries of the segment of c only; it issues the same stores whether it
\* runs on the buffers as the pass found them or on the buffers with the
\* stores of all invocations in them; and the buffers after the pass are the
\* same under every schedule.
C20_InvocationsIndependent ==
  JustAssigned =>
    /\ \A i \in 1..Len(AssignedInvocations) :
         /\ StoredEntries(AssignedInvocations[i].counts) \subseteq {i - 1}
         /\ StoredEntries(AssignedInvocations[i].indices)
              \subseteq Segment(AssignedClu, i - 1)
    /\ PassInvocations(AssignedClu, AssignedLights, clusterTable) = AssignedInvocations
    /\ \A order \in Schedules :
         ClusterPass(AssignedClu, AssignedLights, hist.before, order) = clusterTable

\* two clusters next to each other have both been given lights, the first of
\* them up to its capacity
C20_Witness ==
  /\ JustAssigned
  /\ \E c \in GridClusters(AssignedClu) :
       /\ c + 1 \in GridClusters(AssignedClu)
       /\ clusterTable.counts[c] = AssignedClu.maxLightsPerCluster
       /\ clusterTable.counts[c + 1] >= 1
       /\ Len(AssignedInvocations[c + 1].indices) = AssignedClu.maxLightsPerCluster
       /\ Len(AssignedInvocations[c + 2].indices) >= 1


(***************************************************************************)
(* C21: the depth slices of shading and of assignment.                     *)
(***************************************************************************)
\* view depths, in half units, from the camera to beyond the far plane
HalfDepths == 0..(2 * (FarPlane + 2))

\* slice z of the assignment stage contains the view depth d / q
SliceContains(clu, z, d, q) ==
  /\ zNear(clu, z) * q <= d * clu.clustersZ
  /\ d * clu.clustersZ < zFar(clu, z) * q

\* the slice index of shading agrees with the bounds of assignment at d / q
SliceAgrees(clu, d, q) ==
  LET z == ClusterZIndex(clu, <<d, q>>)
      slices == 0..(clu.clustersZ - 1)
  IN /\ z \in slices
     /\ (clu.near * q <= d /\ d < clu.far * q) =>
          /\ SliceContains(clu, z, d, q)
          /\ \A y \in slices : SliceContains(clu, y, d, q) => y = z
     /\ d < clu.near * q => z = 0
     /\ d >= clu.far * q => z = clu.clustersZ - 1

\* the texels of the G-buffer that hold a surface
SurfaceTexels == {p \in Pixels : gbuffer[p].normal # <<0, 0, 0>>}

\* C21: for every view depth d the slice index the shading passes compute,
\* clamp(floor((d - near) / (far - near) * countZ), 0, countZ - 1), is the one
\* slice whose assignment bounds contain d when d is in [near, far), slice 0
\* below near and slice countZ - 1 from far on; the slices have equal width,
\* are contiguous and cover [near, far].  It holds of the half-unit depths
\* and of the depths the fullscreen pass has resolved.
C21_SliceAgreement ==
  pc = "resolved" =>
    /\ \A d \in HalfDepths : SliceAgrees(clustering, d, 2)
    /\ \A p \in SurfaceTexels :
         SliceAgrees(clustering, DeferredViewDepth(clustering, gbuffer[p].position)[1], 1)
    /\ zNear(clustering, 0) = clustering.near * clustering.clustersZ
    /\ zFar(clustering, clustering.clustersZ - 1) = clustering.far * clustering.clustersZ
    /\ \A z \in 0..(clustering.clustersZ - 1) :
         /\ zFar(clustering, z) - zNear(clustering, z) = clustering.far - clustering.near
         /\ z > 0 => zNear(clustering, z) = zFar(clustering, z - 1)

\* the fullscreen pass has resolved a surface in a slice behind the first
C21_Witness ==
  /\ pc = "resolved"
  /\ clustering.clustersZ >= 2
  /\ \E p \in SurfaceTexels :
       LET vd == DeferredViewDepth(clustering, gbuffer[p].position)
       IN /\ ClusterZIndex(clustering, vd) >= 1
          /\ SliceContains(clustering, ClusterZIndex(clustering, vd), vd[1], 1)


(***************************************************************************)
(* C22: the depth pre-filter of the assignment stage.                      *)
(***************************************************************************)
\* the depth extent [lz - r, lz + r] of the light's sphere meets the slice
\* [zNear, zFar] of cluster c: lz is in [zNear - r, zFar + r]
InDepthRange(clu, la, c) ==
  LET z == clusterZOf(clu, c)
  IN /\ zNear(clu, z) <= (la.lz + LightRadius) * clu.clustersZ
     /\ (la.lz - LightRadius) * clu.clustersZ <= zFar(clu, z)

\* the light indices the invocation of cluster c has stored
StoredBy(c) == {AssignedInvocations[c + 1].indices[j][2] :
                  j \in 1..Len(AssignedInvocations[c + 1].indices)}

\* C22: the depth pre-filter rejects a light for a cluster exactly when its
\* forward distance is below zNear - lightRadius or above zFar + lightRadius:
\* a light outside [zNear - r, zFar + r] is never appended to that cluster, and
\* a light inside it is not rejected by depth, so that it is appended when the
\* angular tests pass it and the list has room.
C22_DepthFilterExact ==
  JustAssigned =>
    \A c \in GridClusters(AssignedClu) :
      \A i \in ActiveLights(AssignedLights) :
        LET la == LightAngles(AssignedClu, AssignedLights.pos[i])
            inRange == InDepthRange(AssignedClu, la, c)
        IN /\ inRange <=> ~DepthReject(AssignedClu, la, clusterZOf(AssignedClu, c))
           /\ ~inRange => i \notin StoredBy(c)
           /\ ( /\ inRange
                /\ ~HorizReject(AssignedClu, la, clusterXOf(AssignedClu, c))
                /\ ~VertReject(AssignedClu, la, clusterYOf(AssignedClu, c))
                /\ Len(AssignedInvocations[c + 1].indices) < AssignedClu.maxLightsPerCluster )
              => i \in StoredBy(c)

\* one light is kept by a cluster though its centre lies outside the slice,
\* within the margin of its radius, and a light the angular tests pass is
\* rejected by depth for another cluster
C22_Witness ==
  /\ JustAssigned
  /\ \E c \in GridClusters(AssignedClu) : \E i \in ActiveLights(AssignedLights) :
       LET la == LightAngles(AssignedClu, AssignedLights.pos[i])
       IN /\ i \in StoredBy(c)
          /\ DepthRejectTight(AssignedClu, la, clusterZOf(AssignedClu, c))
  /\ \E c \in GridClusters(AssignedClu) : \E i \in ActiveLights(AssignedLights) :
       LET la == LightAngles(AssignedClu, AssignedLights.pos[i])
       IN /\ ~InDepthRange(AssignedClu, la, c)
          /\ ~HorizReject(AssignedClu, la, clusterXOf(AssignedClu, c))
          /\ ~VertReject(AssignedClu, la, clusterYOf(AssignedClu, c))
          /\ i \notin StoredBy(c)


(***************************************************************************)
(* C23: flat cluster index and cell coordinates.                           *)
(***************************************************************************)
\* the cells (x, y, z) of the grid
GridCells(clu) ==
  (0..(clu.clustersX - 1)) \X (0..(clu.clustersY - 1)) \X (0..(clu.clustersZ - 1))

\* the cell the assignment stage decomposes a flat index into
CellOf(clu, c) == <<clusterXOf(clu, c), clusterYOf(clu, c), clusterZOf(clu, c)>>

\* C23: the flat index of shading, x + y * countX + z * countX * countY, and
\* the decomposition of assignment by division and remainder are inverse to
\* each other: decomposing the flat index of a cell gives the cell back,
\* recomposing the decomposition of an index below the total gives the index
\* back, and distinct cells have distinct flat indices.
C23_FlattenRoundTrip ==
  JustAssigned =>
    LET clu == AssignedClu
    IN /\ \A cell \in GridCells(clu) :
            /\ FlatIndex(clu, cell[1], cell[2], cell[3]) \in GridClusters(clu)
            /\ CellOf(clu, FlatIndex(clu, cell[1], cell[2], cell[3])) = cell
       /\ \A c \in GridClusters(clu) :
            /\ CellOf(clu, c) \in GridCells(clu)
            /\ FlatIndex(clu, CellOf(clu, c)[1], CellOf(clu, c)[2], CellOf(clu, c)[3]) = c
       /\ \A a, b \in GridCells(clu) :
            FlatIndex(clu, a[1], a[2], a[3]) = FlatIndex(clu, b[1], b[2], b[3]) => a = b
       /\ \A i \in 1..totalClusters(clu) :
            \A j \in 1..Len(AssignedInvocations[i].counts) :
              CellOf(clu, AssignedInvocations[i].counts[j][1]) = CellOf(clu, i - 1)

\* a grid with more than one cell along every axis, unequal along x and y, has
\* been assigned, and a cell off all three axes has been given a light
C23_Witness ==
  /\ Assigned
  /\ AssignedClu.clustersX >= 2
  /\ AssignedClu.clustersY > AssignedClu.clustersX
  /\ AssignedClu.clustersZ >= 2
  /\ \E c \in GridClusters(AssignedClu) :
       /\ clusterXOf(AssignedClu, c) >= 1
       /\ clusterYOf(AssignedClu, c) >= 1
       /\ clusterZOf(AssignedClu, c) >= 1
       /\ clusterTable.counts[c] >= 1


(***************************************************************************)
(* C24: the cluster index of the deferred resolve and of Forward+.         *)
(***************************************************************************)
\* the cell (x, y, z) the Forward+ fragment shader derives for a fragment
ForwardPlusCell(clu, frag) ==
  <<ClusterXIndex(clu, frag.px), ClusterYIndex(clu, frag.py),
    ClusterZIndex(clu, ForwardPlusViewDepth(clu, frag.depth))>>

\* the cell (x, y, z) the fullscreen fragment shader derives at a pixel
DeferredCell(clu, p, fragPos) ==
  <<ClusterXIndex(clu, p[1]), ClusterYIndex(clu, p[2]),
    ClusterZIndex(clu, DeferredViewDepth(clu, fragPos))>>

\* C24: the deferred resolve pass derives the cluster index exactly as the
\* Forward+ pass does: for the same pixel and the same visible surface point
\* the cluster indices (x, y, z) and the flat index of the two fragment
\* shaders are equal.
C24_SameCellDerived ==
  pc = "resolved" =>
    \A p \in SurfacePixels :
       LET frags == Fragments(cameraUniforms)
           frag == frags[Visible(frags, p)]
           fwd == ForwardPlusCell(clustering, frag)
           def == DeferredCell(clustering, p, gbuffer[p].position)
       IN /\ fwd = def
          /\ FlatIndex(clustering, fwd[1], fwd[2], fwd[3])
               = FlatIndex(clustering, def[1], def[2], def[3])

\* the column and the row of the two derivations, which come from the pixel
\* alone, do agree
C24_SameColumnAndRow ==
  pc = "resolved" =>
    \A p \in SurfacePixels :
       LET frags == Fragments(cameraUniforms)
           frag == frags[Visible(frags, p)]
           fwd == ForwardPlusCell(clustering, frag)
           def == DeferredCell(clustering, p, gbuffer[p].position)
       IN fwd[1] = def[1] /\ fwd[2] = def[2]


(***************************************************************************)
(* C25: the one store of a cluster's count.                                *)
(***************************************************************************)
\* the stores to counts[c] that the invocations of the latest pass issued
CountStores(c) ==
  {<<i, j>> \in (1..Len(AssignedInvocations)) \X (1..1) :
     /\ j <= Len(AssignedInvocations[i].counts)
     /\ AssignedInvocations[i].counts[j][1] = c}

\* C25: in one dispatch of the assignment stage counts[c] is written exactly
\* once for every cluster c, by the invocation of c, after every active light
\* has been tested and every index entry of c has been written: the value is
\* the number of index entries the invocation wrote, which counts every
\* passing light up to the capacity, the last active light included.
C25_CountWrittenOnceAtEnd ==
  JustAssigned =>
    /\ \A i \in 1..Len(AssignedInvocations) : Len(AssignedInvocations[i].counts) <= 1
    /\ \A c \in GridClusters(AssignedClu) :
         LET inv == AssignedInvocations[c + 1]
             passing == PassingLights(AssignedClu, AssignedLights, c)
         IN /\ CountStores(c) = {<<c + 1, 1>>}
            /\ inv.counts[1][2] = Len(inv.indices)
            /\ Len(inv.indices)
                 = Min(Cardinality(passing), AssignedClu.maxLightsPerCluster)
            /\ clusterTable.counts[c] = Len(inv.indices)

\* the last active light has been tested and written to a cluster as its
\* second entry before the count of two was stored
C25_Witness ==
  /\ JustAssigned
  /\ AssignedLights.numLights >= 2
  /\ \E c \in GridClusters(AssignedClu) :
       LET inv == AssignedInvocations[c + 1]
       IN /\ Len(inv.indices) = 2
          /\ inv.indices[2][2] = AssignedLights.numLights - 1
          /\ inv.counts = << <<c, 2>> >>
          /\ clusterTable.counts[c] = 2


(***************************************************************************)
(* C26: the reads of the shading passes stay inside the table.             *)
(***************************************************************************)
\* the elements of clusterIndices a shading loop reads for cluster c
ShadeReads(clu, tab, c) ==
  {c * clu.maxLightsPerCluster + i : i \in 0..(LoadAt(tab.counts, c) - 1)}

\* the cluster indices the two shading passes derive at the pixels: Forward+
\* at the pixels that show a surface, the fullscreen pass at every pixel
ShadedClusters ==
  LET frags == Fragments(cameraUniforms)
  IN {ForwardPlusClusterIndex(clustering, frags[Visible(frags, p)]) : p \in SurfacePixels}
       \cup {DeferredClusterIndex(clustering, p[1], p[2], gbuffer[p].position) : p \in Pixels}

\* C26: a shading pass iterates exactly counts[clusterIndex] entries of the
\* segment of its cluster, and the cluster index it derives is below
\* countX * countY * countZ for any fragment coordinate and any depth, depths
\* outside [near, far] and the pixels without geometry of the deferred pass
\* included, so that every read of counts and of indices is inside the
\* allocated buffers.
C26_ShadingReadsInBounds ==
  pc = "resolved" =>
    /\ \A c \in ShadedClusters :
         /\ c \in GridClusters(clustering)
         /\ c \in DOMAIN clusterTable.counts
         /\ ShadeReads(clustering, clusterTable, c) \subseteq Segment(clustering, c)
         /\ ShadeReads(clustering, clusterTable, c) \subseteq DOMAIN clusterTable.indices
         /\ Cardinality(ShadeReads(clustering, clusterTable, c)) = clusterTable.counts[c]
    /\ \A p \in Pixels : \A d \in HalfDepths :
         FlatIndex(clustering, ClusterXIndex(clustering, p[1]),
                   ClusterYIndex(clustering, p[2]),
                   ClusterZIndex(clustering, <<d, 2>>)) \in GridClusters(clustering)

\* the fullscreen pass has shaded a pixel without geometry whose cleared
\* position lies outside [near, far], and a cluster whose list holds a light
C26_Witness ==
  /\ pc = "resolved"
  /\ \E p \in Pixels \ SurfacePixels :
       LET vd == DeferredViewDepth(clustering, gbuffer[p].position)
       IN vd[1] < clustering.near * vd[2] \/ vd[1] > clustering.far * vd[2]
  /\ \E c \in ShadedClusters : ShadeReads(clustering, clusterTable, c) # {}


(***************************************************************************)
(* C27: the order of a cluster's list.                                     *)
(***************************************************************************)
\* entry i of the list of cluster c
EntryAt(clu, tab, c, i) == LoadAt(tab.indices, c * clu.maxLightsPerCluster + i)

\* C27: after the assignment stage the valid prefix of every cluster's list
\* is strictly increasing in light index, so that no light is in it twice.
C27_ListStrictlyIncreasing ==
  Assigned =>
    \A c \in GridClusters(AssignedClu) :
      LET n == clusterTable.counts[c]
      IN /\ \A i \in 0..(n - 2) :
              EntryAt(AssignedClu, clusterTable, c, i)
                < EntryAt(AssignedClu, clusterTable, c, i + 1)
         /\ Cardinality(Listed(AssignedClu, clusterTable, c)) = n

\* a cluster lists two lights, the lower index first
C27_Witness ==
  /\ Assigned
  /\ \E c \in GridClusters(AssignedClu) :
       /\ clusterTable.counts[c] >= 2
       /\ EntryAt(AssignedClu, clusterTable, c, 0)
            < EntryAt(AssignedClu, clusterTable, c, 1)


(***************************************************************************)
(* C28: the dispatch covers the grid.                                      *)
(***************************************************************************)
\* the invocations of the latest pass that have stored anything for cluster c
InvocationsOf(c) ==
  {i \in 1..Len(AssignedInvocations) :
     \/ \E j \in 1..Len(AssignedInvocations[i].counts) :
          AssignedInvocations[i].counts[j][1] = c
     \/ \E j \in 1..Len(AssignedInvocations[i].indices) :
          AssignedInvocations[i].indices[j][1] \in Segment(AssignedClu, c)}

\* C28: one dispatch of the assignment stage processes every cluster index
\* in [0, total) by exactly one invocation, whatever the size of the grid,
\* totals that are not a multiple of the workgroup size of 64 included, and
\* the invocations whose id is at or beyond the total write nothing.
C28_DispatchCoversGrid ==
  JustAssigned =>
    /\ Len(AssignedInvocations) = WorkgroupsFor(NumClusters) * WorkgroupSize
    /\ Len(AssignedInvocations) >= totalClusters(AssignedClu)
    /\ \A c \in GridClusters(AssignedClu) : InvocationsOf(c) = {c + 1}
    /\ \A i \in (totalClusters(AssignedClu) + 1)..Len(AssignedInvocations) :
         /\ AssignedInvocations[i].counts = <<>>
         /\ AssignedInvocations[i].indices = <<>>
    /\ \A n \in 1..(2 * WorkgroupSize + 1) :
         /\ WorkgroupsFor(n) * WorkgroupSize >= n
         /\ (WorkgroupsFor(n) - 1) * WorkgroupSize < n

\* a grid whose total is not a multiple of the workgroup size has been
\* assigned: its last cluster was given a light by its own invocation, and the
\* invocations behind it were idle
C28_Witness ==
  /\ JustAssigned
  /\ totalClusters(AssignedClu) % WorkgroupSize # 0
  /\ totalClusters(AssignedClu) > 1
  /\ Len(AssignedInvocations) > totalClusters(AssignedClu)
  /\ Len(AssignedInvocations[totalClusters(AssignedClu)].indices) >= 1
  /\ AssignedInvocations[Len(AssignedInvocations)].counts = <<>>


(***************************************************************************)
(* C29: what a change of the active light count writes.                    *)
(***************************************************************************)
\* the step leaves every light of the buffer, active or not, and the cluster
\* table as they were
LightsAndTableStay ==
  /\ \A i \in 0..(MaxNumLights - 1) :
       /\ lightSet'.pos[i] = lightSet.pos[i]
       /\ lightSet'.color[i] = lightSet.color[i]
  /\ clusterTable' = clusterTable

\* C29: a change of the active light count writes the numLights word of the
\* header only: position and colour of every light, those outside the new
\* prefix included, and the cluster light table are as before the upload, so
\* that lowering the count and restoring it brings back the same lights.
C29_CountUploadWritesHeaderOnly ==
  /\ [][StepRuns("writeNumLights") =>
          /\ lightSet'.numLights = Head(queue).data
          /\ LightsAndTableStay]_vars
  /\ [](\A n \in 0..MaxNumLights :
          WriteNumLights(WriteNumLights(lightSet, n), lightSet.numLights) = lightSet)

\* the device has just run an upload that lowered the count: the first light
\* outside the new prefix is where the light update had moved it, in its colour,
\* and the cluster table is as the assignment stage left it
C29_Witness ==
  /\ hist.executed # <<>>
  /\ hist.executed[Len(hist.executed)][2] = "writeNumLights"
  /\ lightSet.numLights < InitialNumLights
  /\ lightSet.pos[lightSet.numLights] # <<0, 0, 0>>
  /\ lightSet.color[lightSet.numLights] = LightColor(lightSet.numLights)
  /\ clusterTable # ZeroTable


(***************************************************************************)
(* C30: the host's clustering block and the shader's struct.               *)
(***************************************************************************)
\* a block that holds other contents in every word
UsedBlock == [w \in 0..(BlockWords - 1) |-> U32(1000 + w)]

\* the words in which two blocks differ
WordsChanged(old, new) ==
  {w \in DOMAIN old :
     \/ new[w].elem # old[w].elem
     \/ new[w].type # old[w].type
     \/ new[w].val # old[w].val}

\* the member offsets of struct ClusteringUniforms
MemberOffsets == [k \in 1..Len(ClusteringUniformsMembers) |-> OffsetOfMember(k)]

\* C30: the clustering uniform block the host builds matches struct
\* ClusteringUniforms of the shaders field for field: three matrices of 16
\* floats at the word offsets 0, 16 and 32, then screenWidth, screenHeight,
\* near and far at the words 48..51, then clustersX, clustersY, clustersZ and
\* maxLightsPerCluster as u32 at the words 52..55; setMatrices and setParams
\* write disjoint words, each leaves the words of the other as they are, and
\* together they cover all 56 words.
C30_BlockMatchesStruct ==
  LET view == ViewMatOf(camera)
      mats == setMatrices(UsedBlock, view, ProjMat, ProjMat)
      params == setParams(UsedBlock, ScreenW, ScreenH, NearPlane, FarPlane,
                          ClustersX, ClustersY, ClustersZ, MaxLightsPerCluster)
      both == setParams(mats, ScreenW, ScreenH, NearPlane, FarPlane,
                        ClustersX, ClustersY, ClustersZ, MaxLightsPerCluster)
  IN /\ MemberOffsets = <<viewMatOff, projMatOff, invProjOff,
                          params0Off, params0Off + 1, params0Off + 2, params0Off + 3,
                          params1Off, params1Off + 1, params1Off + 2, params1Off + 3>>
     /\ MemberOffsets = <<0, 16, 32, 48, 49, 50, 51, 52, 53, 54, 55>>
     /\ StructWords = BlockWords /\ BlockWords = 56
     /\ WordsChanged(UsedBlock, mats) = 0..47
     /\ WordsChanged(UsedBlock, params) = 48..55
     /\ WordsChanged(UsedBlock, both) = 0..(BlockWords - 1)
     /\ setMatrices(params, view, ProjMat, ProjMat) = both
     /\ \A w \in 52..55 : both[w].type = "u32"
     /\ \A w \in 0..51 : both[w].type = "f32"
     /\ ShaderView(both)
          = [viewMat |-> view, projMat |-> ProjMat, invProjMat |-> ProjMat,
             screenWidth |-> ScreenW, screenHeight |-> ScreenH,
             near |-> NearPlane, far |-> FarPlane,
             clustersX |-> ClustersX, clustersY |-> ClustersY,
             clustersZ |-> ClustersZ, maxLightsPerCluster |-> MaxLightsPerCluster]
     /\ (pc = "frames" /\ clustering # ZeroClustering) =>
          /\ clustering.viewMat.yaw \in Yaws
          /\ clustering.projMat = ProjMat /\ clustering.invProjMat = ProjMat
          /\ clustering.screenWidth = ScreenW /\ clustering.screenHeight = ScreenH
          /\ clustering.near = NearPlane /\ clustering.far = FarPlane
          /\ clustering.clustersX = ClustersX /\ clustering.clustersY = ClustersY
          /\ clustering.clustersZ = ClustersZ
          /\ clustering.maxLightsPerCluster = MaxLightsPerCluster

\* the block of a second frame, built after the camera has turned, has been
\* uploaded over the block of the first
C30_Witness ==
  /\ Ran(2, "writeClustering")
  /\ clustering # ZeroClustering
  /\ clustering.viewMat # ViewMatOf(InitialCamera)
  /\ clustering = ShaderView(HostBlock(clustering.viewMat, ClustersX, ClustersY,
                                       ClustersZ, MaxLightsPerCluster))

====
